---- MODULE Spec2Model ----
(***************************************************************************)
(* BelegSync receipt pipeline: upload, background OCR/extraction runs,     *)
(* reviewer updates, reprocess and the DATEV bridge sync, modelled over    *)
(* the single relational store the handlers share.                         *)
(*                                                                         *)
(* One action is one handler, or one stretch of a handler between two      *)
(* database commits (the points where other handlers can interleave).      *)
(* A commit that raises writes nothing: the transaction is rolled back.    *)
(***************************************************************************)
EXTENDS Integers, Sequences, FiniteSets, TLC

\* ---------------------------------------------------------------- bounds
MaxBeleg == 2      \* receipt ids are 1..MaxBeleg
MaxRuns == 2       \* background pipeline runs ever enqueued
MaxFiles == 2      \* files in one upload request
MaxSyncs == 1      \* sync requests ever made
MaxUpdates == 1    \* reviewer updates ever made
MaxText == 5       \* characters of an OCR text handed to the quote locator
MaxQuote == 5      \* characters of a quote handed to the quote locator
MaxPieces == 2     \* pieces an OCR text handed to the grounding is made of
MaxWords == 3      \* rows of Tesseract's table for one page
MaxPages == 2      \* pages of a PDF
MaxDocWords == 4   \* rows of Tesseract's tables for one document
MaxWindowQuote == 12   \* characters of a quote whose window sizes are computed
MaxWindowText == 20    \* characters of a text whose window sizes are computed
MaxSyncing == 2    \* sync requests ever made where only syncs are made

\* ------------------------------------------------------ python-like values
NULL == "NULL"     \* None / SQL NULL

Rep(c, n) == [i \in 1..n |-> c]

Min(S) == CHOOSE x \in S : \A y \in S : x <= y
Max(S) == CHOOSE x \in S : \A y \in S : x >= y

Last(s) == s[Len(s)]

\* dict.get(key): None for a missing key
Get(d, k) == IF k \in DOMAIN d THEN d[k] ELSE NULL

\* str.isspace for one character
IsSpace(c) == c \in {" ", "\n", "\t"}

\* str.strip(): drop leading and trailing whitespace
strip(s) ==
    LET keep == {i \in 1..Len(s) : ~IsSpace(s[i])}
    IN  IF keep = {} THEN <<>> ELSE SubSeq(s, Min(keep), Max(keep))

\* str.lower() on the characters that occur in file names and texts
LowerChar(c) ==
    CASE c = "P" -> "p" [] c = "D" -> "d" [] c = "F" -> "f"
      [] c = "J" -> "j" [] c = "G" -> "g" [] c = "T" -> "t"
      [] c = "X" -> "x" [] c = "A" -> "a" [] c = "B" -> "b"
      [] c = "C" -> "c" [] c = "M" -> "m" [] c = "E" -> "e"
      [] c = "H" -> "h"
      [] OTHER -> c

lower(s) == [i \in 1..Len(s) |-> LowerChar(s[i])]

\* pathlib.PurePath(name).suffix: from the last dot on, unless the dot is
\* the first or the last character of the name
suffix(name) ==
    LET dots == {i \in 1..Len(name) : name[i] = "."}
    IN  IF dots = {} THEN <<>>
        ELSE IF Max(dots) = 1 \/ Max(dots) = Len(name) THEN <<>>
        ELSE SubSeq(name, Max(dots), Len(name))

\* ------------------------------------------------------------- constants
ALLOWED == { <<".", "p", "d", "f">>, <<".", "j", "p", "g">>,
             <<".", "j", "p", "e", "g">>, <<".", "p", "n", "g">>,
             <<".", "t", "i", "f", "f">>, <<".", "b", "m", "p">>,
             <<".", "w", "e", "b", "p">> }

MinUsableChars == 20

\* the attributes class Settings declares
SettingsFields == {"database_url", "secret_key", "ollama_url", "ollama_model",
                   "ocr_language", "max_upload_size_mb", "maesn_api_key",
                   "maesn_api_url", "maesn_sandbox", "upload_dir"}

Statuses == {"hochgeladen", "ocr_laeuft", "ocr_fertig", "extraktion_laeuft",
             "extrahiert", "geprueft", "an_datev", "fehler"}

\* ---------------------------------------------------- environment samples
\* file names a client may send
FileNames == { <<"a", ".", "p", "d", "f">>, <<"a", ".", "P", "D", "F">>,
               <<"a", ".", "t", "x", "t">>, <<".", "p", "d", "f">> }

\* what a file holds, as far as OCR goes: nothing Tesseract can read, or the
\* text it reads from it (texts around the usable-text threshold)
Unreadable == <<"?">>
FileContents == { Unreadable,
                  <<" ">> \o Rep("a", MinUsableChars - 1) \o <<"\n">>,
                  Rep("a", MinUsableChars) }

\* what ocr_service.process_file raises, as a result record
OcrError == [ok |-> FALSE, text |-> <<>>, conf |-> 0]

\* OCR of a file is a function of its content: it raises on an unreadable
\* file, else returns the text and a mean confidence (the word geometry
\* "data" is returned too; Beleg maps no column for it)
OcrOf(content) ==
    IF content = Unreadable THEN OcrError
    ELSE [ok |-> TRUE, text |-> content, conf |-> 90]

\* what one POST to the LLM generate endpoint can end in
LlmFailures == {"unreachable", "timeout", "http_error"}
LlmReplies == LlmFailures \cup {"unparseable", "json"}

\* the replies of the POSTs one extraction can make: a second POST follows
\* only an unparseable first reply
ReplySeqs == { <<r, "json">> : r \in LlmReplies \ {"unparseable"} } \cup
             { <<"unparseable", r>> : r \in LlmReplies }

\* ... when the endpoint fails on every call
FailingReplySeqs == { r \in ReplySeqs : r[1] # "json" /\ r[2] # "json" } \cup
                    { <<r, r>> : r \in LlmFailures }

\* Optional values: None, or a value
None == <<>>
Some(x) == <<x>>

\* the keys of the extracted-data dict the model follows; a dict is a record
\* over them, NULL standing for a key that is missing or maps to None
DataFields == {"beleg_typ", "aussteller", "datum_beleg", "betrag_brutto",
               "skr03_konto", "skr03_bezeichnung", "bu_schluessel"}

EmptyDict == [f \in DataFields |-> NULL]

\* the LLM's parsed answers (after unwrap and clean), with the spans grounded
\* for them: a kind alone, and a grounded invoice
AnswerKindOnly == [daten |-> [EmptyDict EXCEPT !.beleg_typ = "sonstig"], spans |-> <<>>]
AnswerInvoice ==
    [daten |-> [EmptyDict EXCEPT !.beleg_typ = "rechnung", !.aussteller = "ACME",
                                 !.datum_beleg = "15.03.2024"],
     spans |-> << [start |-> 1, end |-> 5, text |-> "ACME", feld |-> "aussteller"] >>]
LlmAnswers == {AnswerKindOnly, AnswerInvoice}

\* ------------------------------------------------------------- extractor
\* Python truthiness of the values the model holds
Truthy(v) == v \notin {NULL, ""}

\* a score from the number of fields alone
assess_confidence_ungrounded(attrs, spans) ==
    LET required == {"beleg_typ", "betrag_brutto", "aussteller", "datum_beleg"}
        found == Cardinality({f \in required : Get(attrs, f) # NULL})
    IN  IF Get(attrs, "beleg_typ") = "kassenbon"
        THEN IF found >= 3 THEN "hoch"
             ELSE IF found >= 2 THEN "mittel" ELSE "niedrig"
        ELSE IF found >= 4 THEN "hoch"
             ELSE IF found >= 2 THEN "mittel" ELSE "niedrig"

\* _assess_confidence
assess_confidence(attrs, spans) ==
    LET required == {"beleg_typ", "betrag_brutto", "aussteller", "datum_beleg"}
        found == Cardinality({f \in required : Get(attrs, f) # NULL})
        grounded == {spans[i].feld : i \in 1..Len(spans)}
        grounded_count ==
            Cardinality({"betrag_brutto", "aussteller", "datum_beleg"} \cap grounded)
    IN  IF Get(attrs, "beleg_typ") = "kassenbon"
        THEN IF found >= 3 /\ grounded_count >= 1 THEN "hoch"
             ELSE IF found >= 2 THEN "mittel" ELSE "niedrig"
        ELSE IF found >= 4 /\ grounded_count >= 2 THEN "hoch"
             ELSE IF found >= 3 THEN "mittel"
             ELSE IF found >= 2 THEN "mittel" ELSE "niedrig"

\* the record extract_with_ollama returns when every attempt failed
LlmFailedResult(methode) ==
    [extrahierte_daten |-> EmptyDict, quellreferenzen |-> <<>>,
     methode |-> methode, konfidenz |-> "niedrig"]

\* an extractor that asks again after a transport or HTTP failure too
extract_with_ollama_retrying(replies, answer, retry) ==
    LET parsed == [extrahierte_daten |-> answer.daten,
                   quellreferenzen |-> answer.spans,
                   methode |-> "ollama_direkt",
                   konfidenz |-> assess_confidence(answer.daten, answer.spans)]
    IN  IF replies[1] = "json" THEN [result |-> parsed, calls |-> 1]
        ELSE IF ~retry THEN [result |-> LlmFailedResult("fehler"), calls |-> 1]
        ELSE IF replies[2] = "json" THEN [result |-> parsed, calls |-> 2]
        ELSE [result |-> LlmFailedResult("fehler"), calls |-> 2]

\* extract_with_ollama: replies[k] is what the k-th POST ends in, answer the
\* parsed object of a "json" reply. Returns the result and the POSTs made.
\* A transport or HTTP failure is caught and returned as methode "fehler";
\* only an unparseable first reply is retried, once.
extract_with_ollama(replies, answer, retry) ==
    LET first == replies[1]
        parsed == [extrahierte_daten |-> answer.daten,
                   quellreferenzen |-> answer.spans,
                   methode |-> "ollama_direkt",
                   konfidenz |-> assess_confidence(answer.daten, answer.spans)]
        second == replies[2]
    IN  IF first \in LlmFailures
        THEN [result |-> LlmFailedResult("fehler"), calls |-> 1]
        ELSE IF first = "json" THEN [result |-> parsed, calls |-> 1]
        ELSE IF ~retry
        THEN [result |-> LlmFailedResult("ollama_direkt"), calls |-> 1]
        ELSE IF second \in LlmFailures
        THEN [result |-> LlmFailedResult("fehler"), calls |-> 2]
        ELSE IF second = "json" THEN [result |-> parsed, calls |-> 2]
        ELSE [result |-> LlmFailedResult("ollama_direkt"), calls |-> 2]

KONTIERUNG_MAP ==
    [handwerkerrechnung |-> <<"4946", "Fremdleistungen", "3">>,
     rechnung |-> <<"4900", "Sonst. betriebl. Aufwend.", "3">>,
     spendenbescheinigung |-> <<"6300", "Sonst. betriebl. Aufwend.", "">>,
     bewirtungsbeleg |-> <<"4650", "Bewirtungskosten", "3">>,
     fahrtkosten |-> <<"4500", "Fahrzeugkosten", "">>,
     arztrechnung |-> <<"4900", "Sonst. betriebl. Aufwend.", "">>,
     versicherungsnachweis |-> <<"4300", "Versicherungen", "">>,
     nebenkostenabrechnung |-> <<"4210", "Miete", "">>,
     lohnsteuerbescheinigung |-> <<"4120", "Gehaelter", "">>,
     kassenbon |-> <<"4900", "Sonst. betriebl. Aufwend.", "2">>]

\* a classifier that derives the tax code from every known rate
auto_kontierung_overriding(beleg_typ, mwst_satz) ==
    LET entry == IF beleg_typ \in DOMAIN KONTIERUNG_MAP
                 THEN KONTIERUNG_MAP[beleg_typ]
                 ELSE <<"4900", "Sonst. betriebl. Aufwend.", "">>
        bu == IF mwst_satz # 0
              THEN (IF mwst_satz >= 15 THEN "3"
                    ELSE IF mwst_satz >= 5 THEN "2" ELSE "")
              ELSE entry[3]
    IN  [skr03_konto |-> entry[1], skr03_bezeichnung |-> entry[2],
         bu_schluessel |-> bu]

\* auto_kontierung; mwst_satz is the rate in percent, 0 when absent (None
\* and 0 are both falsy where the code tests it)
auto_kontierung(beleg_typ, mwst_satz) ==
    LET entry == IF beleg_typ \in DOMAIN KONTIERUNG_MAP
                 THEN KONTIERUNG_MAP[beleg_typ]
                 ELSE <<"4900", "Sonst. betriebl. Aufwend.", "">>
        bu == IF mwst_satz # 0 /\ entry[3] = ""
              THEN (IF mwst_satz >= 15 THEN "3"
                    ELSE IF mwst_satz >= 5 THEN "2" ELSE "")
              ELSE entry[3]
    IN  [skr03_konto |-> entry[1], skr03_bezeichnung |-> entry[2],
         bu_schluessel |-> bu]

\* the fields _merge_extractions may fill from the vision pass
key_fields ==
    {"aussteller", "betrag_brutto", "datum_beleg", "mwst_satz", "mwst_betrag",
     "rechnungsnummer", "beleg_typ", "beschreibung"}

\* a merge that takes every value the vision pass has
merge_extractions_preferring_vision(tesseract_data, vision_data) ==
    LET filled == {f \in key_fields : Get(vision_data, f) # NULL}
    IN  [merged |-> [f \in DOMAIN tesseract_data |->
                        IF f \in filled THEN vision_data[f] ELSE tesseract_data[f]],
         was_merged |-> filled # {}]

\* _merge_extractions: a dict is a record, NULL standing for a key that is
\* missing or maps to None; both dicts are records over the same keys
merge_extractions(tesseract_data, vision_data) ==
    LET vision_filled ==
            {f \in key_fields : /\ Get(vision_data, f) # NULL
                                /\ Get(tesseract_data, f) = NULL}
    IN  [merged |-> [f \in DOMAIN tesseract_data |->
                        IF f \in vision_filled THEN vision_data[f]
                        ELSE tesseract_data[f]],
         was_merged |-> vision_filled # {}]

\* lines 755-761 of extract_beleg: what the vision pass leaves in result;
\* vision is None when _vision_extract returned nothing
vision_pass(result, vision) ==
    LET got == merge_extractions(result.extrahierte_daten, vision[1])
    IN  IF vision # None /\ got.was_merged
        THEN [result EXCEPT !.extrahierte_daten = got.merged,
                            !.methode = "ollama_vision_merged"]
        ELSE result

\* dict.update
Update(d, e) == [k \in DOMAIN d |-> IF k \in DOMAIN e THEN e[k] ELSE d[k]]

\* extract_beleg had Settings declared an (empty) vision_model: the vision
\* pass is skipped, classification and scoring follow
extract_beleg_vision_declared(image_path, replies, answer) ==
    LET got == extract_with_ollama(replies, answer, TRUE)
        data == got.result.extrahierte_daten
        classified ==
            IF Truthy(Get(data, "beleg_typ")) /\ ~Truthy(Get(data, "skr03_konto"))
            THEN Update(data, auto_kontierung(data["beleg_typ"], 0))
            ELSE data
    IN  [raised |-> FALSE, calls |-> got.calls,
         result |-> [got.result EXCEPT
             !.extrahierte_daten = classified,
             !.konfidenz = assess_confidence(classified, got.result.quellreferenzen)]]

\* extract_beleg as _run_pipeline calls it (image_path is the receipt's file
\* path as a string; the sampled answers carry no mwst_satz, so the rate
\* handed to auto_kontierung is float(0)). Reading settings.vision_model raises AttributeError: Settings
\* declares no such attribute, and `image_path and settings.vision_model`
\* evaluates it whenever image_path is truthy. Without an image path the
\* vision pass is skipped and classification and scoring follow.
extract_beleg(image_path, replies, answer) ==
    LET got == extract_with_ollama(replies, answer, TRUE)
        data == got.result.extrahierte_daten
        classified ==
            IF Truthy(Get(data, "beleg_typ")) /\ ~Truthy(Get(data, "skr03_konto"))
            THEN Update(data, auto_kontierung(data["beleg_typ"], 0))
            ELSE data
    IN  IF image_path # <<>> /\ "vision_model" \notin SettingsFields
        THEN [raised |-> TRUE, calls |-> got.calls, result |-> got.result]
        ELSE [raised |-> FALSE, calls |-> got.calls,
              result |-> [got.result EXCEPT
                  !.extrahierte_daten = classified,
                  !.konfidenz = assess_confidence(classified, got.result.quellreferenzen)]]

\* ---------------------------------------------------------- quote locator
\* Python strings are sequences of characters; positions count from 0.
\* s[a:b] for 0 <= a
Slice(s, a, b) == SubSeq(s, a + 1, Min({b, Len(s)}))

\* str.rfind: the highest position at which sub occurs
rfind(s, sub) ==
    LET hits == {i \in 0..(Len(s) - Len(sub)) : SubSeq(s, i + 1, i + Len(sub)) = sub}
    IN  IF hits = {} THEN -1 ELSE Max(hits)

\* str.find: the lowest position at which sub occurs, -1 when it does not
find(s, sub) ==
    LET hits == {i \in 0..(Len(s) - Len(sub)) : SubSeq(s, i + 1, i + Len(sub)) = sub}
    IN  IF hits = {} THEN -1 ELSE Min(hits)

\* re.sub(r'\s+', ' ', text) from position i on
RECURSIVE CollapseFrom(_, _)
CollapseFrom(s, i) ==
    IF i > Len(s) THEN <<>>
    ELSE IF ~IsSpace(s[i]) THEN <<s[i]>> \o CollapseFrom(s, i + 1)
    ELSE IF i > 1 /\ IsSpace(s[i - 1]) THEN CollapseFrom(s, i + 1)
    ELSE <<" ">> \o CollapseFrom(s, i + 1)

\* _normalize_text
normalize_text(text) == lower(strip(CollapseFrom(text, 1)))

\* the position after the whitespace run of original that starts at pos
RECURSIVE SkipSpace(_, _)
SkipSpace(original, pos) ==
    IF pos < Len(original) /\ IsSpace(original[pos + 1])
    THEN SkipSpace(original, pos + 1) ELSE pos

\* the while loop of _map_normalized_pos and the returns after it; -1 stands
\* for orig_start = None
RECURSIVE MapLoop(_, _, _, _, _, _, _)
MapLoop(original, normalized, norm_start, norm_len, orig_pos, norm_pos, orig_start) ==
    LET started == IF norm_pos = norm_start /\ orig_start = -1
                   THEN orig_pos ELSE orig_start
    IN  IF norm_pos < Len(normalized) /\ orig_pos < Len(original)
        THEN IF norm_pos = norm_start + norm_len
             THEN << (IF started \in {-1, 0} THEN 0 ELSE started), orig_pos >>
             ELSE IF normalized[norm_pos + 1] = " " /\ IsSpace(original[orig_pos + 1])
             THEN MapLoop(original, normalized, norm_start, norm_len,
                          SkipSpace(original, orig_pos), norm_pos + 1, started)
             ELSE MapLoop(original, normalized, norm_start, norm_len,
                          orig_pos + 1, norm_pos + 1, started)
        ELSE IF orig_start # -1 THEN <<orig_start, orig_pos>>
        ELSE <<0, Min({norm_len, Len(original)})>>

\* _map_normalized_pos
map_normalized_pos(original, normalized, norm_start, norm_len) ==
    MapLoop(original, normalized, norm_start, norm_len, 0, 0, -1)

\* _bigrams
bigrams(s) == IF Len(s) >= 2 THEN {SubSeq(s, i, i + 1) : i \in 1..(Len(s) - 1)} ELSE {}

\* the window sizes of _fuzzy_slide_match: int(qlen * 0.9) and the like are
\* floors of the exact products for the lengths the model draws
WindowSizes(qlen, tlen) ==
    { qlen, Max({3, (qlen * 9) \div 10}), Min({tlen, (qlen * 11) \div 10}),
      Max({3, (qlen * 8) \div 10}), Min({tlen, (qlen * 12) \div 10}) }

\* _fuzzy_slide_match with threshold 0.80: the windows are tried by size, then
\* by position, and a window replaces the best one only when its Dice ratio
\* is strictly higher (ratios are compared as fractions)
fuzzy_slide_match(ocr_text, quote) ==
    LET qlen == Len(quote)
        tlen == Len(ocr_text)
        text_lower == lower(ocr_text)
        quote_bigrams == bigrams(lower(quote))
        Cand(w, i) == bigrams(SubSeq(text_lower, i + 1, i + w))
        Num(c) == 2 * Cardinality(quote_bigrams \cap Cand(c[1], c[2]))
        Den(c) == Cardinality(quote_bigrams) + Cardinality(Cand(c[1], c[2]))
        windows == { <<w, i>> \in WindowSizes(qlen, tlen) \X (0..tlen) :
                        /\ w <= tlen
                        /\ i <= tlen - w
                        /\ Cand(w, i) # {}
                        /\ Num(<<w, i>>) > 0 }
        Before(c, d) == c[1] < d[1] \/ (c[1] = d[1] /\ c[2] <= d[2])
        best == CHOOSE c \in windows : \A d \in windows :
                    \/ Num(c) * Den(d) > Num(d) * Den(c)
                    \/ Num(c) * Den(d) = Num(d) * Den(c) /\ Before(c, d)
    IN  IF qlen < 5 \/ tlen < qlen \/ quote_bigrams = {} \/ windows = {} THEN None
        ELSE IF 10 * Num(best) >= 8 * Den(best)
        THEN Some(<<best[2], best[2] + best[1]>>)
        ELSE None

\* a tier 2 hit that reports the quote as the matched text
CaseInsensitiveSpanQuoting(ocr_text, quote, idx, feld) ==
    [start |-> idx, end |-> idx + Len(quote), text |-> quote, feld |-> feld]

\* the span of a tier 2 hit at idx
CaseInsensitiveSpan(ocr_text, quote, idx, feld) ==
    [start |-> idx, end |-> idx + Len(quote),
     text |-> Slice(ocr_text, idx, idx + Len(quote)), feld |-> feld]

\* _locate_quote_in_text: the span with the tier that found it, or None
locate_tier(ocr_text, quote, feld) ==
    LET idx1 == find(ocr_text, quote)
        idx2 == find(lower(ocr_text), lower(quote))
        norm_quote == normalize_text(quote)
        norm_ocr == normalize_text(ocr_text)
        norm_idx == find(norm_ocr, norm_quote)
        pos == map_normalized_pos(ocr_text, norm_ocr, norm_idx, Len(norm_quote))
        fuzzy == fuzzy_slide_match(ocr_text, quote)
    IN  IF idx1 >= 0
        THEN [tier |-> 1,
              span |-> Some([start |-> idx1, end |-> idx1 + Len(quote),
                             text |-> quote, feld |-> feld])]
        ELSE IF idx2 >= 0
        THEN [tier |-> 2, span |-> Some(CaseInsensitiveSpan(ocr_text, quote, idx2, feld))]
        ELSE IF norm_idx >= 0
        THEN [tier |-> 3,
              span |-> Some([start |-> pos[1], end |-> pos[2],
                             text |-> Slice(ocr_text, pos[1], pos[2]), feld |-> feld])]
        ELSE IF Len(quote) >= 5 /\ fuzzy # None
        THEN [tier |-> 4,
              span |-> Some([start |-> fuzzy[1][1], end |-> fuzzy[1][2],
                             text |-> Slice(ocr_text, fuzzy[1][1], fuzzy[1][2]),
                             feld |-> feld])]
        ELSE [tier |-> 0, span |-> None]

locate_quote_in_text(ocr_text, quote, feld) == locate_tier(ocr_text, quote, feld).span

\* ------------------------------------------------------ source grounding
\* _build_source_spans_from_quotes over the quotes in dict order: quotes is a
\* sequence of [feld, quote] pairs; a quote shorter than two characters after
\* strip() is skipped, the others are located stripped
RECURSIVE build_source_spans_from_quotes(_, _)
build_source_spans_from_quotes(ocr_text, quotes) ==
    IF quotes = <<>> THEN <<>>
    ELSE LET q == Head(quotes)
             span == locate_quote_in_text(ocr_text, strip(q.quote), q.feld)
         IN  (IF Len(strip(q.quote)) < 2 THEN <<>> ELSE span)
                 \o build_source_spans_from_quotes(ocr_text, Tail(quotes))

DigitChars == <<"0", "1", "2", "3", "4", "5", "6", "7", "8", "9">>

IsDigit(c) == \E d \in 1..Len(DigitChars) : DigitChars[d] = c

DigitValue(c) == (CHOOSE d \in 1..Len(DigitChars) : DigitChars[d] = c) - 1

\* str(n) for an int n >= 0
RECURSIVE Digits(_)
Digits(n) ==
    IF n < 10 THEN <<DigitChars[n + 1]>>
    ELSE Digits(n \div 10) \o <<DigitChars[(n % 10) + 1]>>

\* int(s) for a string of digits
RECURSIVE ParseInt(_)
ParseInt(s) ==
    IF s = <<>> THEN 0
    ELSE 10 * ParseInt(SubSeq(s, 1, Len(s) - 1)) + DigitValue(s[Len(s)])

\* str(x) for a float x >= 0 of at most two decimals, given in hundredths
FloatStr(cents) ==
    Digits(cents \div 100) \o <<".">> \o
        (IF cents % 100 = 0 THEN <<"0">>
         ELSE IF cents % 10 = 0 THEN <<DigitChars[((cents % 100) \div 10) + 1]>>
         ELSE <<DigitChars[((cents % 100) \div 10) + 1], DigitChars[(cents % 10) + 1]>>)

\* the values of an extracted dict: None, a str, or a float in hundredths
NoValue == [kind |-> "none"]
StrValue(t) == [kind |-> "str", s |-> t]
FloatValue(cents) == [kind |-> "float", cents |-> cents]

\* str(value)
ValueStr(value) ==
    IF value.kind = "float" THEN FloatStr(value.cents) ELSE value.s

\* re.match(r'^\d+\.?\d*$', value_str)
IsNumeric(value_str) ==
    LET dots == {i \in 1..Len(value_str) : value_str[i] = "."}
    IN  /\ value_str # <<>>
        /\ \A i \in 1..Len(value_str) : IsDigit(value_str[i]) \/ value_str[i] = "."
        /\ Cardinality(dots) <= 1
        /\ 1 \notin dots

\* value_str.split(".")[0] and [1] of a numeric string
IntPart(value_str) ==
    LET dot == find(value_str, <<".">>)
    IN  IF dot < 0 THEN value_str ELSE Slice(value_str, 0, dot)

FracPart(value_str) ==
    LET dot == find(value_str, <<".">>)
    IN  IF dot < 0 THEN <<>> ELSE Slice(value_str, dot + 1, Len(value_str))

\* f"{n:,}".replace(",", ".")
RECURSIVE Grouped(_)
Grouped(n) ==
    IF n < 1000 THEN Digits(n)
    ELSE Grouped(n \div 1000) \o <<".">> \o
         <<DigitChars[((n % 1000) \div 100) + 1], DigitChars[((n % 100) \div 10) + 1],
           DigitChars[(n % 10) + 1]>>

\* _to_german_number on a numeric string with at most two decimals: the
\* decimals rounded to two places are the decimals padded with zeros
to_german_number(n) ==
    LET frac == FracPart(n)
        padded == SubSeq(frac \o <<"0", "0">>, 1, 2)
    IN  Grouped(ParseInt(IntPart(n))) \o <<",">> \o
            (IF ParseInt(frac) > 0 THEN padded ELSE <<"0", "0">>)

\* str.replace(".", ",")
DotToComma(t) == [i \in 1..Len(t) |-> IF t[i] = "." THEN "," ELSE t[i]]

\* str.split(): the maximal runs of non-whitespace from position i on
RECURSIVE SplitFrom(_, _)
SplitFrom(t, i) ==
    IF i > Len(t) THEN <<>>
    ELSE IF IsSpace(t[i]) THEN SplitFrom(t, i + 1)
    ELSE LET stops == {j \in i..Len(t) : IsSpace(t[j])}
             stop == IF stops = {} THEN Len(t) + 1 ELSE Min(stops)
         IN  <<SubSeq(t, i, stop - 1)>> \o SplitFrom(t, stop)

split(t) == SplitFrom(t, 1)

\* re.search(escape(w0) + r'[\s\-]+' + escape(w1), ocr_text, re.IGNORECASE):
\* the leftmost match, its separator run as long as a match allows;
\* <<start, end>> in a sequence, or None
search_two_words(ocr_text, w0, w1) ==
    LET IsSep(c) == IsSpace(c) \/ c = "-"
        Same(i, w) == /\ i + Len(w) <= Len(ocr_text)
                      /\ lower(SubSeq(ocr_text, i + 1, i + Len(w))) = lower(w)
        matches == { <<i, r>> \in (0..Len(ocr_text)) \X (1..Len(ocr_text)) :
                        /\ Same(i, w0)
                        /\ i + Len(w0) + r <= Len(ocr_text)
                        /\ \A k \in 1..r : IsSep(ocr_text[i + Len(w0) + k])
                        /\ Same(i + Len(w0) + r, w1) }
        start == Min({m[1] : m \in matches})
        run == Max({m[2] : m \in {n \in matches : n[1] = start}})
    IN  IF matches = {} THEN None
        ELSE Some(<<start, start + Len(w0) + run + Len(w1)>>)

\* the span of a find hit
FoundSpan(idx, t, feld) ==
    [start |-> idx, end |-> idx + Len(t), text |-> t, feld |-> feld]

\* the number-format branch of _build_source_spans for one value
NumberSpans(ocr_text, value_str, feld) ==
    LET german == to_german_number(value_str)
        comma == DotToComma(value_str)
        simple == IntPart(value_str) \o <<",">> \o
                      (IF find(value_str, <<".">>) >= 0 THEN FracPart(value_str)
                       ELSE <<"0", "0">>)
    IN  IF ~IsNumeric(value_str) THEN <<>>
        ELSE IF find(ocr_text, german) >= 0
        THEN <<FoundSpan(find(ocr_text, german), german, feld)>>
        ELSE IF find(ocr_text, comma) >= 0
        THEN <<FoundSpan(find(ocr_text, comma), comma, feld)>>
        ELSE IF find(ocr_text, simple) >= 0
        THEN <<FoundSpan(find(ocr_text, simple), simple, feld)>>
        ELSE <<>>

\* the case-insensitive branch of _build_source_spans for one value
TextSpans(ocr_text, value_str, feld) ==
    LET idx == find(lower(ocr_text), lower(value_str))
        words == split(value_str)
        hit == search_two_words(ocr_text, words[1], words[2])
    IN  IF feld \notin {"aussteller", "rechnungsnummer", "beschreibung"} THEN <<>>
        ELSE IF idx >= 0
        THEN << [start |-> idx, end |-> idx + Len(value_str),
                 text |-> Slice(ocr_text, idx, idx + Len(value_str)), feld |-> feld] >>
        ELSE IF feld = "aussteller" /\ Len(value_str) > 5 /\ Len(words) >= 2
                /\ hit # None
        THEN << [start |-> hit[1][1], end |-> hit[1][2],
                 text |-> Slice(ocr_text, hit[1][1], hit[1][2]), feld |-> feld] >>
        ELSE <<>>

\* the fields _build_source_spans searches that the model follows, in its order
SearchFields == <<"aussteller", "betrag_brutto", "rechnungsnummer">>

\* the body of the loop of _build_source_spans for one field
FieldSpans(ocr_text, value, feld) ==
    LET value_str == ValueStr(value)
    IN  IF value.kind = "none" THEN <<>>
        ELSE IF value_str = <<>> \/ value_str = <<"n", "u", "l", "l">> THEN <<>>
        ELSE IF find(ocr_text, value_str) >= 0
        THEN <<FoundSpan(find(ocr_text, value_str), value_str, feld)>>
        ELSE NumberSpans(ocr_text, value_str, feld) \o TextSpans(ocr_text, value_str, feld)

\* _build_source_spans: attrs maps some of the fields to values
RECURSIVE SpansFrom(_, _, _)
SpansFrom(ocr_text, attrs, k) ==
    IF k > Len(SearchFields) THEN <<>>
    ELSE FieldSpans(ocr_text,
                    IF SearchFields[k] \in DOMAIN attrs THEN attrs[SearchFields[k]]
                    ELSE NoValue,
                    SearchFields[k])
             \o SpansFrom(ocr_text, attrs, k + 1)

build_source_spans(ocr_text, attrs) == SpansFrom(ocr_text, attrs, 1)

\* lines 459-473 of extract_with_ollama: the spans of the quotes, then the
\* fallback spans of the fields no quote grounded
ground(ocr_text, flat_data, quotes) ==
    LET spans == build_source_spans_from_quotes(ocr_text, quotes)
        grounded_fields == {spans[i].feld : i \in 1..Len(spans)}
        left == DOMAIN flat_data \ grounded_fields
        fallback_data == [k \in left |-> flat_data[k]]
    IN  spans \o (IF left = {} THEN <<>> ELSE build_source_spans(ocr_text, fallback_data))

\* ----------------------------------------------------------- OCR geometry
PAGE_SEPARATOR ==
    <<"\n", "\n", "-", "-", "-", " ", "S", "e", "i", "t", "e", " ", "-", "-",
      "-", "\n", "\n">>

\* str.rstrip("\n")
RECURSIVE rstrip_newlines(_)
rstrip_newlines(s) ==
    IF s # <<>> /\ s[Len(s)] = "\n" THEN rstrip_newlines(SubSeq(s, 1, Len(s) - 1))
    ELSE s

\* the texts one after the other, nothing between them
RECURSIVE concat(_, _)
concat(sep, texts) ==
    IF texts = <<>> THEN <<>> ELSE texts[1] \o concat(sep, Tail(texts))

\* sep.join(texts)
RECURSIVE join(_, _)
join(sep, texts) ==
    IF texts = <<>> THEN <<>>
    ELSE IF Len(texts) = 1 THEN texts[1]
    ELSE texts[1] \o sep \o join(sep, Tail(texts))

\* A page is what _extract_page gets from the image and from image_to_data:
\* scale is the upscaling of the preprocessing (2 for an image narrower than
\* 1500 pixels, else 1) and rows are the rows of Tesseract's table in its
\* order. The key of a row's line is (block_num, line_num); par_num is not
\* part of it.
KeyOf(row) == <<row.block_num, row.line_num>>

\* the order of sorted() on the keys
KeyBefore(k, o) == k[1] < o[1] \/ (k[1] = o[1] /\ k[2] < o[2])

RECURSIVE SortedKeys(_)
SortedKeys(S) ==
    IF S = {} THEN <<>>
    ELSE LET m == CHOOSE k \in S : \A o \in S \ {k} : KeyBefore(k, o)
         IN  <<m>> \o SortedKeys(S \ {m})

\* lines[key]: the words of a line, as indices into the list of words
LineWords(rows, key) ==
    SelectSeq([i \in 1..Len(rows) |-> i], LAMBDA i : KeyOf(rows[i]) = key)

\* the loop over the words of one line, from the j-th word on; acc holds
\* text_parts (joined), char_offset and the char_start given to each word
RECURSIVE EmitLine(_, _, _, _)
EmitLine(rows, line_words, j, acc) ==
    IF j > Len(line_words) THEN acc
    ELSE LET txt == strip(rows[line_words[j]].text)
             start == acc.char_offset + (IF j > 1 THEN 1 ELSE 0)
         IN  EmitLine(rows, line_words, j + 1,
                 [text_parts |-> acc.text_parts
                                 \o (IF j > 1 THEN <<" ">> ELSE <<>>) \o txt,
                  char_offset |-> start + Len(txt),
                  char_start |-> acc.char_start @@ (line_words[j] :> start)])

\* the loop over sorted(lines.keys()), from the n-th key on
RECURSIVE EmitLines(_, _, _, _)
EmitLines(rows, keys, n, acc) ==
    IF n > Len(keys) THEN acc
    ELSE LET new_block == n > 1 /\ keys[n][1] # keys[n - 1][1]
             opened == [acc EXCEPT
                 !.text_parts = @ \o (IF new_block THEN <<"\n">> ELSE <<>>),
                 !.char_offset = @ + (IF new_block THEN 1 ELSE 0)]
             line == EmitLine(rows, LineWords(rows, keys[n]), 1, opened)
         IN  EmitLines(rows, keys, n + 1,
                 [line EXCEPT !.text_parts = @ \o <<"\n">>,
                              !.char_offset = @ + 1])

\* "".join(text_parts).rstrip("\n")
page_text(text_parts) == rstrip_newlines(text_parts)

\* _extract_page (the confidences are left out): rows with an empty text
\* after strip() are skipped; int(v * scale_x) of a pixel value v is v \div
\* scale
extract_page(page, page_num) ==
    LET rows == SelectSeq(page.rows, LAMBDA r : strip(r.text) # <<>>)
        keys == SortedKeys({KeyOf(rows[i]) : i \in 1..Len(rows)})
        done == EmitLines(rows, keys, 1,
                    [text_parts |-> <<>>, char_offset |-> 0, char_start |-> <<>>])
        word(i) == [text |-> strip(rows[i].text),
                    x |-> rows[i].left \div page.scale,
                    y |-> rows[i].top \div page.scale,
                    w |-> rows[i].width \div page.scale,
                    h |-> rows[i].height \div page.scale,
                    char_start |-> done.char_start[i],
                    char_end |-> done.char_start[i] + Len(strip(rows[i].text))]
    IN  [page_data |-> [page |-> page_num,
                        words |-> [i \in 1..Len(rows) |-> word(i)]],
         text |-> page_text(done.text_parts)]

\* _ocr_image
ocr_image(page) ==
    LET result == extract_page(page, 1)
    IN  [text |-> result.text, data |-> [pages |-> <<result.page_data>>]]

\* the loop of _ocr_pdf over the rendered pages, from page idx on
RECURSIVE OcrPages(_, _, _)
OcrPages(pages, idx, acc) ==
    IF idx > Len(pages) THEN acc
    ELSE LET result == extract_page(pages[idx], idx)
             shift == acc.global_char_offset
             words == result.page_data.words
             shifted == IF shift > 0
                        THEN [i \in 1..Len(words) |->
                                 [words[i] EXCEPT !.char_start = @ + shift,
                                                  !.char_end = @ + shift]]
                        ELSE words
         IN  OcrPages(pages, idx + 1,
                 [all_pages |-> Append(acc.all_pages,
                                       [result.page_data EXCEPT !.words = shifted]),
                  all_texts |-> Append(acc.all_texts, result.text),
                  global_char_offset |-> acc.global_char_offset
                                         + Len(result.text) + Len(PAGE_SEPARATOR)])

\* _ocr_pdf
ocr_pdf(pages) ==
    LET done == OcrPages(pages, 1,
                    [all_pages |-> <<>>, all_texts |-> <<>>, global_char_offset |-> 0])
    IN  [text |-> join(PAGE_SEPARATOR, done.all_texts),
         data |-> [pages |-> done.all_pages]]

\* process_file on a readable file: the suffix picks the reader
ocr_geometry(doc) ==
    IF doc.kind = "pdf" THEN ocr_pdf(doc.pages) ELSE ocr_image(doc.pages[1])

\* the words of all pages in one list, each with its page
RECURSIVE AllWords(_)
AllWords(pages) ==
    IF pages = <<>> THEN <<>>
    ELSE [i \in 1..Len(pages[1].words) |->
             [word |-> pages[1].words[i], page |-> pages[1].page]]
         \o AllWords(Tail(pages))

\* the page a union box is given
first_page(matching_words) == matching_words[1].page

\* _enrich_spans_with_bboxes
enrich_spans_with_bboxes(spans, ocr_data) ==
    LET all_words == AllWords(ocr_data.pages)
        matching(span) ==
            SelectSeq(all_words, LAMBDA e : /\ e.word.char_start < span.end
                                            /\ e.word.char_end > span.start)
        bbox(m) ==
            LET min_x == Min({m[i].word.x : i \in 1..Len(m)})
                min_y == Min({m[i].word.y : i \in 1..Len(m)})
                max_right == Max({m[i].word.x + m[i].word.w : i \in 1..Len(m)})
                max_bottom == Max({m[i].word.y + m[i].word.h : i \in 1..Len(m)})
            IN  [x |-> min_x, y |-> min_y, w |-> max_right - min_x,
                 h |-> max_bottom - min_y, page |-> first_page(m)]
    IN  IF all_words = <<>> THEN spans
        ELSE [s \in 1..Len(spans) |->
                 IF matching(spans[s]) # <<>>
                 THEN [start |-> spans[s].start, end |-> spans[s].end,
                       text |-> spans[s].text, feld |-> spans[s].feld,
                       bbox |-> bbox(matching(spans[s]))]
                 ELSE spans[s]]

\* ------------------------------------------------------------------ state
VARIABLES
    steuerjahre,    \* tax-year id -> maesn_company_id of the year's Mandant
    belege,         \* table belege: belege[id] is the row with that id
    files,          \* files[id]: content of the file at belege[id].dateipfad
    runs,           \* the pipeline runs enqueued as background tasks, in order
    syncs,          \* the sync requests received, in order
    sync_log,       \* table datev_sync_log
    updates,        \* number of reviewer updates handled
    response,       \* the HTTP response the last step sent, if it sent one
    request,        \* observer: the request the last step handled
    once,           \* observer: the row as the first completed run left it
    args,           \* the arguments of a function evaluated on its own
    ret             \* what the function returned

vars == <<steuerjahre, belege, files, runs, syncs, sync_log, updates,
         response, request, once, args, ret>>

\* no function is evaluated on its own
NoCall == <<>>

\* the function has not returned yet
Pending == [pending |-> TRUE]

\* a step that answers no request
NoResponse == [op |-> "none", code |-> 0]

\* no request observed
NoRequest == [op |-> "none", id |-> 0, files |-> <<>>]

\* ------------------------------------------------------------------- rows
\* f"{uid}_{file.filename}" under the upload directory
PathStr(uid, name) == <<"u", ToString(uid), "_">> \o name

\* Beleg(...) as upload_belege builds it, with the column defaults
NewBeleg(sj_id, path) ==
    [steuerjahr_id |-> sj_id, dateipfad |-> path, status |-> "hochgeladen",
     ocr_text |-> None, ocr_konfidenz |-> None,
     extrahierte_daten |-> None, quellreferenzen |-> None,
     extraktion_methode |-> NULL, extraktion_konfidenz |-> NULL,
     beleg_typ |-> NULL, aussteller |-> NULL, skr03_konto |-> NULL,
     skr03_bezeichnung |-> NULL, bu_schluessel |-> NULL, gegenkonto |-> "1200",
     manuell_geprueft |-> FALSE, pruefnotiz |-> <<>>,
     datev_sync_status |-> NULL, datev_sync_id |-> NULL]

\* a receipt the database holds at startup, extracted by an earlier
\* deployment (the seed rows have this shape)
StoredText == Rep("b", MinUsableChars)
StoredBeleg ==
    [NewBeleg(1, PathStr(0, <<"d", ".", "p", "d", "f">>)) EXCEPT
        !.status = "extrahiert",
        !.ocr_text = Some(StoredText), !.ocr_konfidenz = Some(94),
        !.extrahierte_daten =
            Some([EmptyDict EXCEPT !.beleg_typ = "handwerkerrechnung",
                                   !.aussteller = "Schmidt", !.skr03_konto = "4800"]),
        !.quellreferenzen =
            Some(<< [start |-> 1, end |-> 8, text |-> "Schmidt", feld |-> "aussteller"] >>),
        !.extraktion_methode = "ollama_source_grounding",
        !.extraktion_konfidenz = "hoch",
        !.beleg_typ = "handwerkerrechnung", !.aussteller = "Schmidt",
        !.skr03_konto = "4800", !.bu_schluessel = "9"]

\* The tables exist and the seed is skipped when the database already holds
\* clients (main.py): tax year 1 belongs to a client linked to the bridge,
\* tax year 2 to one that is not; the receipts table is empty or holds one
\* extracted receipt, whose file is still readable or no longer is.
Steuerjahre == (1 :> "c1") @@ (2 :> NULL)

Init ==
    /\ steuerjahre = Steuerjahre
    /\ \/ belege = <<>> /\ files = <<>>
       \/ belege = <<StoredBeleg>> /\ files \in {<<StoredText>>, <<Unreadable>>}
    /\ runs = <<>>
    /\ syncs = <<>>
    /\ sync_log = <<>>
    /\ updates = 0
    /\ response = NoResponse
    /\ request = NoRequest
    /\ once = None
    /\ args = NoCall
    /\ ret = NoCall

\* what the table holds in place of a row that delete_beleg removed: the id
\* is not given out again while the model runs, the row is gone
DeletedRow == [NewBeleg(0, <<>>) EXCEPT !.status = "geloescht"]

\* db.query(Beleg).get(id) finds a row
BelegIds == {b \in 1..Len(belege) : belege[b] # DeletedRow}

\* ----------------------------------------------------------------- upload
\* a background task _run_pipeline(beleg_id) added by request req; last is
\* the status the run committed last
NewRun(id, req) ==
    [beleg |-> id, req |-> req, pc |-> "queued", ocr_result |-> OcrError,
     last |-> NULL]

\* the suffix test comparing the suffix as sent
AcceptedCaseSensitive(uploads) ==
    SelectSeq(uploads, LAMBDA f : suffix(f.name) \in ALLOWED)

\* the files of a request that pass the suffix test, in request order
Accepted(uploads) ==
    SelectSeq(uploads, LAMBDA f : lower(suffix(f.name)) \in ALLOWED)

UploadedRows(sj_id, acc, base) ==
    [k \in 1..Len(acc) |-> NewBeleg(sj_id, PathStr(base + k, acc[k].name))]

\* POST /api/belege/upload/{sj_id}
upload_belege(sj_id, uploads) ==
    LET acc == Accepted(uploads)
        base == Len(belege)
        req == Len(runs) + 1
    IN  /\ base + Len(acc) <= MaxBeleg
        /\ Len(runs) + Len(acc) <= MaxRuns
        /\ IF sj_id \notin DOMAIN steuerjahre
           THEN /\ response' = [op |-> "upload", code |-> 404]
                /\ UNCHANGED <<belege, files, runs>>
           ELSE /\ belege' = belege \o UploadedRows(sj_id, acc, base)
                /\ files' = files \o [k \in 1..Len(acc) |-> acc[k].content]
                /\ runs' = runs \o [k \in 1..Len(acc) |-> NewRun(base + k, req)]
                /\ response' = [op |-> "upload",
                                code |-> IF Len(acc) = 0 THEN 400 ELSE 200]
        /\ UNCHANGED <<steuerjahre, syncs, sync_log, updates>>

\* --------------------------------------------------------------- pipeline
\* ocr_service.process_file: the suffix picks the reader, any other suffix
\* raises; OCR itself is a function of the file
process_file(file_path, content) ==
    IF lower(suffix(file_path)) \in ALLOWED THEN OcrOf(content) ELSE OcrError

\* the usable-text test on the untrimmed text
NoUsableTextUntrimmed(text) == text = <<>> \/ Len(text) < MinUsableChars

\* not text or len(text.strip()) < 20
NoUsableText(text) == text = <<>> \/ Len(strip(text)) < MinUsableChars

\* what each commit of _run_pipeline writes to the row (the columns the
\* session has pending; the other columns keep what the table holds)
StartWrite(row) == [row EXCEPT !.status = "ocr_laeuft"]

\* an OCR commit that appends the text to the text already stored
OcrSuccessWriteAppending(row, res) ==
    [row EXCEPT !.ocr_text = Some((IF @ = None THEN <<>> ELSE @[1]) \o res.text),
                !.ocr_konfidenz = Some(res.conf), !.status = "ocr_fertig"]

OcrSuccessWrite(row, res) ==
    [row EXCEPT !.ocr_text = Some(res.text), !.ocr_konfidenz = Some(res.conf),
                !.status = "ocr_fertig"]

\* an OCR error handler that also clears the OCR artifacts
OcrFailureWriteClearing(row) ==
    [row EXCEPT !.status = "fehler", !.pruefnotiz = <<"OCR-Fehler">>,
                !.ocr_text = None, !.ocr_konfidenz = None]

OcrFailureWrite(row) ==
    [row EXCEPT !.status = "fehler", !.pruefnotiz = <<"OCR-Fehler">>]

NoTextWrite(row) ==
    [row EXCEPT !.status = "fehler",
                !.pruefnotiz = <<"OCR lieferte keinen verwertbaren Text">>]

ExtractionStartWrite(row) == [row EXCEPT !.status = "extraktion_laeuft"]

\* _map_fields on the string columns the model follows
MappedColumns == {"beleg_typ", "aussteller", "skr03_konto", "skr03_bezeichnung",
                  "bu_schluessel"}

map_fields(row, data) ==
    [c \in DOMAIN row |->
        IF c \in MappedColumns /\ Truthy(Get(data, c)) /\ Get(data, c) # "null"
        THEN data[c]
        ELSE IF c = "gegenkonto" /\ ~Truthy(row[c]) THEN "1200"
        ELSE row[c]]

ExtractionSuccessWrite(row, result) ==
    [map_fields([row EXCEPT
                    !.extrahierte_daten = Some(result.extrahierte_daten),
                    !.quellreferenzen = Some(result.quellreferenzen),
                    !.extraktion_methode = result.methode,
                    !.extraktion_konfidenz = result.konfidenz],
                result.extrahierte_daten)
     EXCEPT !.status = "extrahiert"]

ExtractionFailureWrite(row) ==
    [row EXCEPT !.status = "fehler", !.pruefnotiz = <<"Extraktion-Fehler">>]

\* BackgroundTasks runs the tasks of one request one after the other; tasks
\* of different requests run side by side
MayStep(i) ==
    /\ i \in 1..Len(runs)
    /\ \A j \in 1..(i - 1) : runs[j].req = runs[i].req => runs[j].pc = "done"

\* the run returns, or an exception reaches the outer handler, which logs it
Stop(run) == [run EXCEPT !.pc = "done", !.ocr_result = OcrError]

Commit(run, status) == [run EXCEPT !.last = status]

PipelineFrame ==
    /\ response' = NoResponse
    /\ UNCHANGED <<steuerjahre, files, syncs, sync_log, updates>>

\* lines 31-37: load the row, set ocr_laeuft, commit
run_start(i, commit_ok) ==
    LET run == runs[i]
        b == run.beleg
    IN  /\ MayStep(i)
        /\ run.pc = "queued"
        /\ IF b \notin BelegIds \/ ~commit_ok
           THEN /\ runs' = [runs EXCEPT ![i] = Stop(run)]
                /\ UNCHANGED belege
           ELSE /\ belege' = [belege EXCEPT ![b] = StartWrite(@)]
                /\ runs' = [runs EXCEPT ![i] = Commit([run EXCEPT !.pc = "ocr"],
                                                      "ocr_laeuft")]
        /\ PipelineFrame

\* lines 38-50: OCR, its commit, and the handler of the inner try. A commit
\* that raises inside the try is handled like an OCR failure; the handler's
\* own commit may raise too, and then nothing is written.
run_ocr(i, commit_ok, handler_commit_ok) ==
    LET run == runs[i]
        b == run.beleg
        res == process_file(belege[b].dateipfad, files[b])
    IN  /\ MayStep(i)
        /\ run.pc = "ocr"
        /\ IF res.ok /\ commit_ok
           THEN /\ belege' = [belege EXCEPT ![b] = OcrSuccessWrite(@, res)]
                /\ runs' = [runs EXCEPT ![i] =
                               Commit([run EXCEPT !.pc = "check", !.ocr_result = res],
                                      "ocr_fertig")]
           ELSE IF handler_commit_ok
           THEN /\ belege' = [belege EXCEPT ![b] = OcrFailureWrite(@)]
                /\ runs' = [runs EXCEPT ![i] = Commit(Stop(run), "fehler")]
           ELSE /\ runs' = [runs EXCEPT ![i] = Stop(run)]
                /\ UNCHANGED belege
        /\ PipelineFrame

\* lines 52-60: the usable-text test, then either the error commit and
\* return, or the extraktion_laeuft commit
run_check(i, commit_ok) ==
    LET run == runs[i]
        b == run.beleg
    IN  /\ MayStep(i)
        /\ run.pc = "check"
        /\ IF ~commit_ok
           THEN /\ runs' = [runs EXCEPT ![i] = Stop(run)]
                /\ UNCHANGED belege
           ELSE IF NoUsableText(run.ocr_result.text)
           THEN /\ belege' = [belege EXCEPT ![b] = NoTextWrite(@)]
                /\ runs' = [runs EXCEPT ![i] = Commit(Stop(run), "fehler")]
           ELSE /\ belege' = [belege EXCEPT ![b] = ExtractionStartWrite(@)]
                /\ runs' = [runs EXCEPT ![i] =
                               Commit([run EXCEPT !.pc = "extract"],
                                      "extraktion_laeuft")]
        /\ PipelineFrame

\* lines 61-89: extract_beleg, the writes and commit of a success, and the
\* handler of the inner try
run_extract(i, replies, answer, commit_ok, handler_commit_ok) ==
    LET run == runs[i]
        b == run.beleg
        got == extract_beleg(belege[b].dateipfad, replies, answer)
    IN  /\ MayStep(i)
        /\ run.pc = "extract"
        /\ IF ~got.raised /\ commit_ok
           THEN /\ belege' = [belege EXCEPT ![b] = ExtractionSuccessWrite(@, got.result)]
                /\ runs' = [runs EXCEPT ![i] = Commit(Stop(run), "extrahiert")]
           ELSE IF handler_commit_ok
           THEN /\ belege' = [belege EXCEPT ![b] = ExtractionFailureWrite(@)]
                /\ runs' = [runs EXCEPT ![i] = Commit(Stop(run), "fehler")]
           ELSE /\ runs' = [runs EXCEPT ![i] = Stop(run)]
                /\ UNCHANGED belege
        /\ PipelineFrame

\* --------------------------------------------------------------- reviewer
\* bodies of PUT /api/belege/{id}: a correction confirmed as reviewed, and a
\* review withdrawn (None: the field is not sent)
Updates ==
    { [aussteller |-> Some("Meier"), manuell_geprueft |-> Some(TRUE),
       pruefnotiz |-> Some(<<"ok">>)],
      [aussteller |-> None, manuell_geprueft |-> Some(FALSE), pruefnotiz |-> None] }

\* setattr for every field sent, then status geprueft when the flag is true
UpdateWrite(row, data) ==
    [row EXCEPT
        !.aussteller = IF data.aussteller = None THEN @ ELSE data.aussteller[1],
        !.manuell_geprueft =
            IF data.manuell_geprueft = None THEN @ ELSE data.manuell_geprueft[1],
        !.pruefnotiz = IF data.pruefnotiz = None THEN @ ELSE data.pruefnotiz[1],
        !.status = IF data.manuell_geprueft = Some(TRUE) THEN "geprueft" ELSE @]

\* PUT /api/belege/{beleg_id}
update_beleg(beleg_id, data) ==
    /\ updates < MaxUpdates
    /\ updates' = updates + 1
    /\ IF beleg_id \notin BelegIds
       THEN /\ response' = [op |-> "update", code |-> 404]
            /\ UNCHANGED belege
       ELSE /\ belege' = [belege EXCEPT ![beleg_id] = UpdateWrite(@, data)]
            /\ response' = [op |-> "update", code |-> 200]
    /\ UNCHANGED <<steuerjahre, files, runs, syncs, sync_log>>

\* -------------------------------------------------------------- reprocess
\* a reprocess that keeps the provenance spans
ReprocessWriteKeepingSpans(row) ==
    [row EXCEPT !.status = "hochgeladen", !.extrahierte_daten = None]

ReprocessWrite(row) ==
    [row EXCEPT !.status = "hochgeladen", !.extrahierte_daten = None,
                !.quellreferenzen = None]

\* background_tasks.add_task(_run_pipeline, b.id, ...)
ReprocessTasks(beleg_id, req) == << NewRun(beleg_id, req) >>

\* POST /api/belege/{beleg_id}/reprocess
reprocess_beleg(beleg_id) ==
    /\ Len(runs) < MaxRuns
    /\ IF beleg_id \notin BelegIds
       THEN /\ response' = [op |-> "reprocess", code |-> 404]
            /\ UNCHANGED <<belege, runs>>
       ELSE /\ belege' = [belege EXCEPT ![beleg_id] = ReprocessWrite(@)]
            /\ runs' = runs \o ReprocessTasks(beleg_id, Len(runs) + 1)
            /\ response' = [op |-> "reprocess", code |-> 200]
    /\ UNCHANGED <<steuerjahre, files, syncs, sync_log, updates>>

\* ----------------------------------------------------------------- delete
\* DELETE /api/belege/{beleg_id}: the file is removed, then the row
delete_beleg(beleg_id) ==
    /\ IF beleg_id \notin BelegIds
       THEN /\ response' = [op |-> "delete", code |-> 404]
            /\ UNCHANGED <<belege, files>>
       ELSE /\ belege' = [belege EXCEPT ![beleg_id] = DeletedRow]
            /\ files' = [files EXCEPT ![beleg_id] = Unreadable]
            /\ response' = [op |-> "delete", code |-> 200]
    /\ UNCHANGED <<steuerjahre, runs, syncs, sync_log, updates>>

\* ------------------------------------------------------------ bridge sync
\* what one upload_beleg_to_datev ends in: no API key is configured (no call
\* is made), the POST is answered 200/201, answered otherwise, or raises
PushOutcomes == {"not_configured", "created", "http_error", "exception"}

\* the rows the query of sync_to_datev selects
SyncCandidates(sj_id, nur_gepruefte) ==
    { b \in BelegIds :
        /\ belege[b].steuerjahr_id = sj_id
        /\ belege[b].status \in {"extrahiert", "geprueft"}
        /\ belege[b].datev_sync_status # "synced"
        /\ (nur_gepruefte => belege[b].manuell_geprueft) }

\* a set of ids as the list q.all() returns, in id order
RECURSIVE AsList(_)
AsList(S) == IF S = {} THEN <<>> ELSE <<Min(S)>> \o AsList(S \ {Min(S)})

\* lines 37-56: the two lookups and the query; the rows stay loaded in the
\* request's session until its commit
sync_request(sj_id, nur_gepruefte, max_syncs) ==
    LET ids == AsList(SyncCandidates(sj_id, nur_gepruefte))
    IN  /\ Len(syncs) < max_syncs
        /\ IF sj_id \notin DOMAIN steuerjahre
           THEN /\ response' = [op |-> "sync", code |-> 404]
                /\ UNCHANGED syncs
           ELSE IF ~Truthy(steuerjahre[sj_id])
           THEN /\ response' = [op |-> "sync", code |-> 400]
                /\ UNCHANGED syncs
           ELSE IF ids = <<>>
           THEN /\ response' = [op |-> "sync", code |-> 200]
                /\ UNCHANGED syncs
           ELSE /\ syncs' = Append(syncs,
                       [pc |-> "push",
                        loaded |-> [k \in 1..Len(ids) |->
                                       [beleg_id |-> ids[k],
                                        pruefnotiz |-> belege[ids[k]].pruefnotiz]]])
                /\ response' = NoResponse
        /\ UNCHANGED <<steuerjahre, belege, files, runs, sync_log, updates>>

sync_begin(sj_id, nur_gepruefte) == sync_request(sj_id, nur_gepruefte, MaxSyncs)

\* the detail sync_batch_to_datev builds from the result of one upload
PushResult(outcome, beleg_id) ==
    IF outcome = "created"
    THEN [beleg_id |-> beleg_id, success |-> TRUE, datev_document_id |-> "doc"]
    ELSE [beleg_id |-> beleg_id, success |-> FALSE, datev_document_id |-> NULL]

PushSuccessWrite(row, detail) ==
    [row EXCEPT !.datev_sync_status = "synced",
                !.datev_sync_id = detail.datev_document_id,
                !.status = "an_datev"]

\* a failed push that puts the receipt in error
PushFailureWriteToError(row, loaded_note) ==
    [row EXCEPT !.datev_sync_status = "error", !.status = "fehler",
                !.pruefnotiz = loaded_note \o <<"DATEV-Fehler">>]

\* the note is appended to the note the request loaded with the row
PushFailureWrite(row, loaded_note) ==
    [row EXCEPT !.datev_sync_status = "error",
                !.pruefnotiz = loaded_note \o <<"DATEV-Fehler">>]

\* the row of belege[b] after the loop over the details
SyncedRow(row, b, sync, details) ==
    LET hit == {k \in 1..Len(details) : details[k].beleg_id = b}
    IN  IF hit = {} THEN row
        ELSE IF details[Max(hit)].success
        THEN PushSuccessWrite(row, details[Max(hit)])
        ELSE PushFailureWrite(row, sync.loaded[Max(hit)].pruefnotiz)

\* one DATEVSyncLog row per detail
SyncLogRows(details) ==
    [k \in 1..Len(details) |->
        [beleg_id |-> details[k].beleg_id,
         status |-> IF details[k].success THEN "success" ELSE "error"]]

\* lines 58-88: the pushes of sync_batch_to_datev, the loop over the details
\* and the one commit. db.query(Beleg).get finds the rows the request loaded
\* in its session's identity map, also a row deleted since: the UPDATE of
\* such a row matches no row, the flush raises StaleDataError, the commit
\* rolls back (log rows included) and the request is answered 500.
sync_end(s, outcomes) ==
    LET sync == syncs[s]
        details == [k \in 1..Len(sync.loaded) |->
                       PushResult(outcomes[k], sync.loaded[k].beleg_id)]
        stale == \E k \in 1..Len(sync.loaded) : sync.loaded[k].beleg_id \notin BelegIds
    IN  /\ sync.pc = "push"
        /\ IF stale
           THEN /\ response' = [op |-> "sync", code |-> 500]
                /\ UNCHANGED <<belege, sync_log>>
           ELSE /\ belege' = [b \in 1..Len(belege) |->
                                 SyncedRow(belege[b], b, sync, details)]
                /\ sync_log' = sync_log \o SyncLogRows(details)
                /\ response' = [op |-> "sync", code |-> 200]
        /\ syncs' = [syncs EXCEPT ![s] = [pc |-> "done", loaded |-> <<>>]]
        /\ UNCHANGED <<steuerjahre, files, runs, updates>>

\* ---------------------------------------------------------- specification
\* the files a client sends: the accepted name with every content, the other
\* names with one
UploadFiles ==
    { [name |-> <<"a", ".", "p", "d", "f">>, content |-> c] : c \in FileContents } \cup
    { [name |-> n, content |-> Rep("a", MinUsableChars)] :
        n \in FileNames \ { <<"a", ".", "p", "d", "f">> } }

UploadRequests == UNION { [1..n -> UploadFiles] : n \in 1..MaxFiles }

UnknownId == MaxBeleg + 1
UnknownYear == Cardinality(DOMAIN Steuerjahre) + 1

\* a step none of the observers records
Unobserved == UNCHANGED <<request, once, args, ret>>

Uploads ==
    \/ (\E uploads \in UploadRequests : upload_belege(1, uploads)) /\ Unobserved
    \/ (\E f \in UploadFiles : upload_belege(UnknownYear, <<f>>)) /\ Unobserved

Reprocesses ==
    (\E b \in 1..UnknownId : reprocess_beleg(b)) /\ Unobserved

Requests ==
    \/ Uploads
    \/ (\E b \in 1..UnknownId, d \in Updates : update_beleg(b, d)) /\ Unobserved
    \/ Reprocesses
    \/ (\E sj \in 1..UnknownYear, nur \in BOOLEAN : sync_begin(sj, nur)) /\ Unobserved
    \/ /\ \E s \in 1..Len(syncs) :
             \E o \in [1..Len(syncs[s].loaded) -> PushOutcomes] : sync_end(s, o)
       /\ Unobserved

\* the steps of the background runs while the store is available (every
\* commit succeeds), the LLM replies drawn from replies
Pipeline(replies) ==
    \/ (\E i \in 1..Len(runs) : run_start(i, TRUE)) /\ Unobserved
    \/ (\E i \in 1..Len(runs) : run_ocr(i, TRUE, TRUE)) /\ Unobserved
    \/ (\E i \in 1..Len(runs) : run_check(i, TRUE)) /\ Unobserved
    \/ /\ \E i \in 1..Len(runs), r \in replies, a \in LlmAnswers :
             run_extract(i, r, a, TRUE, TRUE)
       /\ Unobserved

Next == Requests \/ Pipeline(ReplySeqs)

Spec == Init /\ [][Next]_vars

\* the same system while the LLM endpoint fails on every call
NextLlmDown == Requests \/ Pipeline(FailingReplySeqs)

SpecLlmDown == Init /\ [][NextLlmDown]_vars

\* requests observed: an upload or reprocess step leaves its request in
\* request
ObservedUploads ==
    \/ \E uploads \in UploadRequests :
          /\ upload_belege(1, uploads)
          /\ request' = [op |-> "upload", id |-> 1, files |-> uploads]
          /\ UNCHANGED <<once, args, ret>>
    \/ \E f \in UploadFiles :
          /\ upload_belege(UnknownYear, <<f>>)
          /\ request' = [op |-> "upload", id |-> UnknownYear, files |-> <<f>>]
          /\ UNCHANGED <<once, args, ret>>

ObservedReprocesses ==
    \E b \in 1..UnknownId :
        /\ reprocess_beleg(b)
        /\ request' = [op |-> "reprocess", id |-> b, files |-> <<>>]
        /\ UNCHANGED <<once, args, ret>>

NextObserved ==
    \/ ObservedUploads
    \/ ObservedReprocesses
    \/ (\E b \in 1..UnknownId, d \in Updates : update_beleg(b, d)) /\ Unobserved
    \/ Pipeline(ReplySeqs)

SpecObserved == Init /\ [][NextObserved]_vars

\* the request handlers, delete among them, while no background run is
\* scheduled
Deletes ==
    (\E b \in 1..UnknownId : delete_beleg(b)) /\ Unobserved

NextDeleting == Requests \/ Deletes

SpecDeleting == Init /\ [][NextDeleting]_vars

\* the store may fail: any commit of a run may raise
FaultyPipeline ==
    \/ (\E i \in 1..Len(runs), c \in BOOLEAN : run_start(i, c)) /\ Unobserved
    \/ /\ \E i \in 1..Len(runs), c \in BOOLEAN, h \in BOOLEAN : run_ocr(i, c, h)
       /\ Unobserved
    \/ (\E i \in 1..Len(runs), c \in BOOLEAN : run_check(i, c)) /\ Unobserved
    \/ /\ \E i \in 1..Len(runs), r \in ReplySeqs, a \in LlmAnswers :
             \E c \in BOOLEAN, h \in BOOLEAN : run_extract(i, r, a, c, h)
       /\ Unobserved

NextFaulty == Uploads \/ Reprocesses \/ FaultyPipeline

SpecFaulty == Init /\ [][NextFaulty]_vars

\* one receipt reprocessed again and again, each run to completion before
\* the next reprocess, with the OCR and LLM outputs held fixed: OCR is a
\* function of the file, the LLM replies a function of the file's text
FixedReplies(content) ==
    IF content = StoredText THEN <<"unparseable", "http_error">>
    ELSE IF content = Unreadable THEN <<"timeout", "timeout">>
    ELSE <<"unparseable", "json">>

FixedAnswer(content) ==
    IF content = StoredText THEN AnswerKindOnly ELSE AnswerInvoice

\* rows the table can hold before the reprocess: the stored receipt, one an
\* earlier run left in error, and one whose run was lost in a restart
FixedRows ==
    { StoredBeleg,
      OcrFailureWrite(NewBeleg(1, PathStr(0, <<"d", ".", "p", "d", "f">>))),
      NewBeleg(1, PathStr(0, <<"d", ".", "p", "d", "f">>)) }

InitFixed ==
    /\ steuerjahre = Steuerjahre
    /\ belege \in { <<row>> : row \in FixedRows }
    /\ files \in { <<c>> : c \in FileContents \cup {StoredText} }
    /\ runs = <<>>
    /\ syncs = <<>>
    /\ sync_log = <<>>
    /\ updates = 0
    /\ response = NoResponse
    /\ request = NoRequest
    /\ once = None
    /\ args = NoCall
    /\ ret = NoCall

AllRunsDone == \A i \in 1..Len(runs) : runs[i].pc = "done"

\* once takes the row when the first run completes
ObserveOnce ==
    /\ once' = IF Len(runs) = 1 /\ runs[1].pc # "done" /\ runs'[1].pc = "done"
               THEN Some(belege'[1]) ELSE once
    /\ UNCHANGED <<request, args, ret>>

NextFixed ==
    \/ runs = <<>> /\ (\E d \in Updates : update_beleg(1, d)) /\ Unobserved
    \/ AllRunsDone /\ reprocess_beleg(1) /\ Unobserved
    \/ (\E i \in 1..Len(runs) : run_start(i, TRUE)) /\ ObserveOnce
    \/ (\E i \in 1..Len(runs) : run_ocr(i, TRUE, TRUE)) /\ ObserveOnce
    \/ (\E i \in 1..Len(runs) : run_check(i, TRUE)) /\ ObserveOnce
    \/ /\ \E i \in 1..Len(runs) :
             run_extract(i, FixedReplies(files[1]), FixedAnswer(files[1]), TRUE, TRUE)
       /\ ObserveOnce

SpecFixed == InitFixed /\ [][NextFixed]_vars

\* ------------------------------------------------- functions on their own
\* the store while a function is evaluated on its own: empty and untouched
StoreIdle ==
    /\ steuerjahre = Steuerjahre
    /\ belege = <<>>
    /\ files = <<>>
    /\ runs = <<>>
    /\ syncs = <<>>
    /\ sync_log = <<>>
    /\ updates = 0
    /\ response = NoResponse
    /\ request = NoRequest
    /\ once = None

StoreUnchanged ==
    UNCHANGED <<steuerjahre, belege, files, runs, syncs, sync_log, updates,
                response, request, once>>

\* the strings of at most n characters over an alphabet
Strings(alphabet, n) == UNION { [1..k -> alphabet] : k \in 0..n }

\* OCR texts and LLM quotes: a letter, a letter in the other case, a blank
LocatorTexts == Strings({"a", "B", " "}, MaxText)
LocatorQuotes == Strings({"a", "b", " "}, MaxQuote)

\* pieces of receipts: an issuer in two spellings, an amount in three
\* number formats, white space
Pieces ==
    { <<>>, <<" ">>, <<"\n">>,
      <<"A", "c", "m", "e", " ", "G", "m", "b", "H">>,
      <<"A", "C", "M", "E", "-", "\n", "g", "m", "b", "h">>,
      <<"1", ".", "2", "3", "4", ",", "5", "0">>,
      <<"1", "2", "3", "4", ",", "5", "0">>,
      <<"1", "2", "3", "4", ".", "5">> }

\* OCR texts of MaxPieces pieces
RECURSIVE PieceTexts(_)
PieceTexts(n) ==
    IF n = 0 THEN {<<>>} ELSE {t \o q : t \in PieceTexts(n - 1), q \in Pieces}

\* what the LLM answers for the issuer: nothing, the value alone, or the
\* value with a quote (exact, respaced, misread)
IssuerValues ==
    { NoValue, StrValue(<<"A", "c", "m", "e", " ", "G", "m", "b", "H">>),
      StrValue(<<"a", "c", "m", "e", " ", "g", "m", "b", "h">>) }
IssuerQuotes ==
    { <<>>, <<" ", "A", "c", "m", "e", " ", " ", "G", "m", "b", "H", " ">>,
      <<"A", "c", "n", "e", " ", "G", "m", "b", "H">>, <<" ", "A", " ">> }

\* ... and for the gross amount and the invoice number
AmountValues == { NoValue, FloatValue(123450), StrValue(<<"1", "2", "3", "4", ".", "5", "0">>) }
NumberValues == { NoValue, StrValue(<<"1", "2", "3", "4">>) }

GroundArgs ==
    { [ocr_text |-> t,
       flat_data |-> [aussteller |-> a, betrag_brutto |-> b, rechnungsnummer |-> n],
       quotes |-> IF q = <<>> \/ a = NoValue THEN <<>>
                  ELSE << [feld |-> "aussteller", quote |-> q] >>] :
        t \in PieceTexts(MaxPieces), a \in IssuerValues, q \in IssuerQuotes,
        b \in AmountValues, n \in NumberValues }

InitLocator ==
    /\ StoreIdle
    /\ args \in [ocr_text : LocatorTexts, quote : LocatorQuotes] \cup GroundArgs
    /\ ret = Pending

\* _locate_quote_in_text(ocr_text, quote, feld) returns
Locate ==
    /\ ret = Pending
    /\ "quote" \in DOMAIN args
    /\ ret' = locate_tier(args.ocr_text, args.quote, "aussteller")
    /\ UNCHANGED args
    /\ StoreUnchanged

\* the grounding of extract_with_ollama returns its spans
Ground ==
    /\ ret = Pending
    /\ "quotes" \in DOMAIN args
    /\ ret' = [spans |-> ground(args.ocr_text, args.flat_data, args.quotes)]
    /\ UNCHANGED args
    /\ StoreUnchanged

SpecLocator == InitLocator /\ [][Locate \/ Ground]_vars

\* what Tesseract reads: a word, a thin rule read as dashes (with white space
\* around it), and white space alone; sizes in pixels of the processed image
Tokens ==
    { [text |-> <<"a", "b">>, width |-> 8, height |-> 9],
      [text |-> <<" ", "-", "-">>, width |-> 8, height |-> 1],
      [text |-> <<" ">>, width |-> 3, height |-> 9] }

\* where a row lies: <<block_num, par_num, line_num>>. Tesseract counts the
\* paragraphs within their block and the lines within their paragraph, each
\* from 1, and lists the rows in reading order.
Places == { <<1, 1, 1>>, <<1, 1, 2>>, <<1, 2, 1>>, <<2, 1, 1>> }

Follows(p, q) ==
    \/ q = p
    \/ q = <<p[1], p[2], p[3] + 1>>
    \/ q = <<p[1], p[2] + 1, 1>>
    \/ q = <<p[1] + 1, 1, 1>>

RowOf(token, place, i) ==
    [text |-> token.text, block_num |-> place[1], par_num |-> place[2],
     line_num |-> place[3], left |-> 10 * i, top |-> 20 * i,
     width |-> token.width, height |-> token.height]

\* the tables of n rows
Tables(n) ==
    { [i \in 1..n |-> RowOf(t[i], p[i], i)] :
        t \in [1..n -> Tokens],
        p \in { q \in [1..n -> Places] :
                  /\ n > 0 => q[1] = <<1, 1, 1>>
                  /\ \A i \in 1..(n - 1) : Follows(q[i], q[i + 1]) } }

\* the tables of a PDF of n pages with at most budget rows in all
RECURSIVE DocTables(_, _)
DocTables(n, budget) ==
    IF n = 0 THEN { <<>> }
    ELSE UNION { { <<t>> \o rest : t \in Tables(m),
                                   rest \in DocTables(n - 1, budget - m) } :
                 m \in 0..Min({MaxWords, budget}) }

\* the documents: an image, or a PDF of up to MaxPages pages; an image
\* narrower than 1500 pixels is scaled up by 2
Documents(max_pages, budget) ==
    { [kind |-> "pdf", pages |-> [i \in 1..Len(r) |-> [scale |-> sc, rows |-> r[i]]]] :
        sc \in {1, 2},
        r \in UNION { DocTables(n, budget) : n \in 1..max_pages } }
    \cup
    { [kind |-> "image", pages |-> << [scale |-> sc, rows |-> r] >>] :
        sc \in {1, 2}, r \in UNION { Tables(m) : m \in 0..MaxWords } }

\* the quotes the LLM gives for the issuer: a word, the rule, two words, and
\* a passage that runs from one page into the next
GeometryQuotes ==
    { <<"a", "b">>, <<"-", "-">>, <<"a", "b", " ", "a", "b">>,
      <<"a", "b">> \o PAGE_SEPARATOR \o <<"a", "b">> }

InitGeometry ==
    /\ StoreIdle
    /\ args \in [doc : Documents(MaxPages, MaxDocWords)]
    /\ ret = Pending

\* process_file returns the text and the geometry
Ocr ==
    /\ ret = Pending
    /\ ret' = ocr_geometry(args.doc)
    /\ UNCHANGED args
    /\ StoreUnchanged

\* the spans grounded on the text are given their boxes
Enrich ==
    /\ ret # Pending
    /\ "spans" \notin DOMAIN ret
    /\ \E q \in GeometryQuotes :
         LET spans == build_source_spans_from_quotes(
                          ret.text, << [feld |-> "aussteller", quote |-> q] >>)
         IN  ret' = [text |-> ret.text, data |-> ret.data, quote |-> q,
                     spans |-> enrich_spans_with_bboxes(spans, ret.data)]
    /\ UNCHANGED args
    /\ StoreUnchanged

SpecGeometry == InitGeometry /\ [][Ocr \/ Enrich]_vars


\* the dicts of the two passes: a key field of each kind and a field the
\* merge leaves alone; the vision pass may read the same value or another
MergeFields == {"aussteller", "betrag_brutto", "beleg_typ", "skr03_konto"}
TextDicts == [MergeFields -> {NULL, "text"}]
VisionDicts == [MergeFields -> {NULL, "text", "vision"}]

\* the attributes and grounded fields a score is asked for
ScoredFields == {"betrag_brutto", "aussteller", "datum_beleg"}
Scored ==
    { [beleg_typ |-> k, betrag_brutto |-> b, aussteller |-> a, datum_beleg |-> d] :
        k \in {NULL, "kassenbon", "rechnung"}, b \in {NULL, "12.5"},
        a \in {NULL, "ACME"}, d \in {NULL, "15.03.2024"} }
SpansOn(fields) ==
    LET order == SelectSeq(<<"betrag_brutto", "aussteller", "datum_beleg",
                             "rechnungsnummer">>, LAMBDA f : f \in fields)
    IN  [i \in 1..Len(order) |->
            [start |-> i, end |-> i + 1, text |-> <<"x">>, feld |-> order[i]]]

\* the kinds and VAT rates the classifier is asked for
Kinds == DOMAIN KONTIERUNG_MAP \cup {"sonstig", "quittung"}
Rates == {None} \cup {Some(r) : r \in {0, 4, 5, 7, 14, 15, 19}}

InitRules ==
    /\ StoreIdle
    /\ args \in [attrs : Scored, grounded : SUBSET (ScoredFields \cup {"rechnungsnummer"})]
           \cup [result : [extrahierte_daten : TextDicts,
                           methode : {"ollama_direkt", "fehler"}],
                 vision : {None} \cup {Some(v) : v \in VisionDicts}]
           \cup [beleg_typ : Kinds, mwst_satz : Rates]
    /\ ret = Pending

\* _assess_confidence(attrs, spans) returns
Assess ==
    /\ ret = Pending
    /\ "attrs" \in DOMAIN args
    /\ ret' = [konfidenz |-> assess_confidence(args.attrs, SpansOn(args.grounded))]
    /\ UNCHANGED args
    /\ StoreUnchanged

\* the vision pass of extract_beleg merges and tags
Merge ==
    /\ ret = Pending
    /\ "vision" \in DOMAIN args
    /\ ret' = vision_pass(args.result, args.vision)
    /\ UNCHANGED args
    /\ StoreUnchanged

\* auto_kontierung(beleg_typ, mwst_satz) returns; a rate of None is as falsy
\* as 0
Classify ==
    /\ ret = Pending
    /\ "beleg_typ" \in DOMAIN args
    /\ ret' = auto_kontierung(args.beleg_typ,
                              IF args.mwst_satz = None THEN 0 ELSE args.mwst_satz[1])
    /\ UNCHANGED args
    /\ StoreUnchanged

SpecRules == InitRules /\ [][Assess \/ Merge \/ Classify]_vars

\* what the LLM's JSON holds once unwrapped and cleaned: the flat data (wert
\* as the dict holds it, value as the grounding reads it) and the quotes
IssuerAnswers ==
    { [wert |-> NULL, value |-> NoValue, quote |-> <<>>],
      [wert |-> "Acme GmbH",
       value |-> StrValue(<<"A", "c", "m", "e", " ", "G", "m", "b", "H">>),
       quote |-> <<"A", "c", "m", "e", " ", "G", "m", "b", "H">>] }
AmountAnswers ==
    { [wert |-> NULL, value |-> NoValue], [wert |-> "1234.5", value |-> FloatValue(123450)] }
ParsedAnswers ==
    { [daten |-> [EmptyDict EXCEPT !.beleg_typ = k, !.aussteller = a.wert,
                                   !.betrag_brutto = b.wert, !.datum_beleg = d],
       flat_data |-> [aussteller |-> a.value, betrag_brutto |-> b.value],
       quotes |-> IF a.quote = <<>> THEN <<>>
                  ELSE << [feld |-> "aussteller", quote |-> a.quote] >>] :
        k \in {NULL, "rechnung", "kassenbon"}, a \in IssuerAnswers,
        b \in AmountAnswers, d \in {NULL, "15.03.2024"} }

\* the OCR texts the extractor is called with: the empty text and a receipt
ExtractorTexts ==
    { <<>>,
      <<"A", "c", "m", "e", " ", "G", "m", "b", "H", "\n", "1", ".", "2", "3",
        "4", ",", "5", "0">> }

\* image_path: None, or the path of the receipt's file
ImagePaths == { <<>>, PathStr(1, <<"a", ".", "p", "d", "f">>) }

InitExtractor ==
    /\ StoreIdle
    /\ args \in [ocr_text : ExtractorTexts, image_path : ImagePaths,
                 replies : ReplySeqs, answer : ParsedAnswers]
    /\ ret = Pending

\* extract_beleg(ocr_text, image_path=...) returns or raises; the spans of a
\* parsed answer are those the grounding finds in ocr_text
Extract ==
    /\ ret = Pending
    /\ ret' = extract_beleg(args.image_path, args.replies,
                  [daten |-> args.answer.daten,
                   spans |-> ground(args.ocr_text, args.answer.flat_data,
                                    args.answer.quotes)])
    /\ UNCHANGED args
    /\ StoreUnchanged

SpecExtractor == InitExtractor /\ [][Extract]_vars

\* lengths of a quote and of a text that reach the window sizes of
\* _fuzzy_slide_match: at least 5 characters, the text no shorter
InitWindows ==
    /\ StoreIdle
    /\ args \in { [qlen |-> q, tlen |-> t] : q \in 5..MaxWindowQuote, t \in 5..MaxWindowText }
    /\ args.tlen >= args.qlen
    /\ ret = Pending

\* window_sizes is computed
Windows ==
    /\ ret = Pending
    /\ ret' = [window_sizes |-> WindowSizes(args.qlen, args.tlen)]
    /\ UNCHANGED args
    /\ StoreUnchanged

SpecWindows == InitWindows /\ [][Windows]_vars

\* a row as a run holds it when the extraction returns: OCR committed,
\* status extraktion_laeuft
InExtraction(row) ==
    ExtractionStartWrite(OcrSuccessWrite(StartWrite(row), OcrOf(StoredText)))

\* rows of a first run, and of a run after a reprocess of a receipt that
\* was extracted, or extracted and reviewed, before
WriteRows ==
    { InExtraction(NewBeleg(1, PathStr(1, <<"a", ".", "p", "d", "f">>))),
      InExtraction(ReprocessWrite(StoredBeleg)) }
    \cup { InExtraction(ReprocessWrite(UpdateWrite(StoredBeleg, u))) : u \in Updates }

\* the records extract_beleg returns when it returns
ExtractorResults ==
    { extract_beleg(None, r, [daten |-> a.daten, spans |-> <<>>]).result :
        r \in ReplySeqs, a \in ParsedAnswers }

InitWrites ==
    /\ StoreIdle
    /\ args \in [row : WriteRows, result : ExtractorResults]
    /\ ret = Pending

\* lines 73-83 of _run_pipeline: the result is stored, _map_fields fills the
\* columns, the status becomes extrahiert
Store ==
    /\ ret = Pending
    /\ ret' = [row |-> ExtractionSuccessWrite(args.row, args.result)]
    /\ UNCHANGED args
    /\ StoreUnchanged

SpecWrites == InitWrites /\ [][Store]_vars

\* sync requests on their own: each awaits its pushes, so a second request
\* can run its query before the first one commits
NextSyncing ==
    \/ (\E sj \in 1..UnknownYear, nur \in BOOLEAN :
            sync_request(sj, nur, MaxSyncing)) /\ Unobserved
    \/ (\E s \in 1..Len(syncs) :
            \E o \in [1..Len(syncs[s].loaded) -> PushOutcomes] : sync_end(s, o))
       /\ Unobserved
    \/ (\E b \in 1..UnknownId, data \in Updates : update_beleg(b, data)) /\ Unobserved

SpecSyncing == Init /\ [][NextSyncing]_vars

\* ------------------------------------------------------------------ claims
\* the arrows of the receipt state machine
Arrows ==
    { <<"hochgeladen", "ocr_laeuft">>, <<"ocr_laeuft", "ocr_fertig">>,
      <<"ocr_fertig", "extraktion_laeuft">>, <<"extraktion_laeuft", "extrahiert">>,
      <<"extrahiert", "geprueft">>, <<"geprueft", "an_datev">>,
      <<"ocr_laeuft", "fehler">>, <<"extraktion_laeuft", "fehler">> }

\* C1: every change of a receipt's status, by whatever operation, follows one
\* of the arrows uploaded -> ocr_running -> ocr_done -> extraction_running ->
\* extracted -> reviewed -> pushed, or goes to error from ocr_running or
\* extraction_running.
C1_StatusFollowsArrows ==
    [][\A b \in BelegIds :
          \/ belege'[b].status = belege[b].status
          \/ <<belege[b].status, belege'[b].status>> \in Arrows]_vars

\* the columns the extraction phase writes
ExtractionFields ==
    {"extrahierte_daten", "quellreferenzen", "extraktion_methode",
     "extraktion_konfidenz", "gegenkonto"} \cup MappedColumns

\* the columns the OCR phase writes
OcrFields == {"ocr_text", "ocr_konfidenz"}

\* C2: when the LLM endpoint fails on every call of a run, the extractor makes
\* at most two calls and returns no data, and the run, having committed
\* ocr_running, ocr_done and extraction_running in that order, ends with the
\* receipt in error with a non-empty note and its extraction columns untouched.
C2_LlmFailureEndsInError ==
    [][/\ \A r \in FailingReplySeqs, a \in LlmAnswers :
            LET got == extract_with_ollama(r, a, TRUE)
            IN  /\ got.calls <= 2
                /\ got.result.extrahierte_daten = EmptyDict
                /\ got.result.quellreferenzen = <<>>
       /\ \A i \in 1..Len(runs) :
            LET b == runs[i].beleg
                pc == runs[i].pc
                to == runs'[i].pc
            IN  /\ to = "ocr" /\ pc # "ocr" =>
                      pc = "queued" /\ runs'[i].last = "ocr_laeuft"
                /\ to = "check" /\ pc # "check" =>
                      pc = "ocr" /\ runs'[i].last = "ocr_fertig"
                /\ to = "extract" /\ pc # "extract" =>
                      pc = "check" /\ runs'[i].last = "extraktion_laeuft"
                /\ pc = "extract" /\ to # "extract" =>
                      /\ to = "done"
                      /\ runs[i].last = "extraktion_laeuft"
                      /\ runs'[i].last = "fehler"
                      /\ belege'[b].status = "fehler"
                      /\ belege'[b].pruefnotiz # <<>>
                      /\ \A f \in ExtractionFields : belege'[b][f] = belege[b][f]]_vars

\* a run has just ended in the extraction error handler, on a receipt that
\* holds no extracted data
C2_Witness ==
    \E i \in 1..Len(runs) :
        /\ runs[i].pc = "done"
        /\ runs[i].last = "fehler"
        /\ belege[runs[i].beleg].status = "fehler"
        /\ belege[runs[i].beleg].pruefnotiz = <<"Extraktion-Fehler">>
        /\ belege[runs[i].beleg].extrahierte_daten = None

\* a run that has begun and not ended
Started(i) == runs[i].pc \in {"ocr", "check", "extract"}

\* C3: at no time are two pipeline runs for the same receipt active at once.
C3_OneActiveRunPerBeleg ==
    \A i, j \in 1..Len(runs) :
        i # j /\ runs[i].beleg = runs[j].beleg => ~(Started(i) /\ Started(j))

\* C4: a run that has ended and committed anything committed extracted or
\* error last, also when a commit raised.
C4_RunEndsExtractedOrError ==
    \A i \in 1..Len(runs) :
        runs[i].pc = "done" /\ runs[i].last # NULL =>
            runs[i].last \in {"extrahiert", "fehler"}

\* C5: a step that ends the OCR phase or the extraction phase in error
\* changes no column of the receipt but status and note: the OCR artifacts,
\* the extraction artifacts and the structured columns keep their values.
C5_FailedPhaseKeepsArtifacts ==
    [][\A i \in 1..Len(runs) :
          LET b == runs[i].beleg
          IN  (/\ runs[i].pc \in {"ocr", "extract"}
               /\ runs'[i].pc = "done"
               /\ runs'[i].last # "extrahiert")
              => \A f \in DOMAIN belege[b] \ {"status", "pruefnotiz"} :
                    belege'[b][f] = belege[b][f]]_vars

\* a run has just failed in OCR on a receipt that holds the OCR text and the
\* extraction artifacts of an earlier run
C5_Witness ==
    \E i \in 1..Len(runs) :
        /\ runs[i].pc = "done"
        /\ runs[i].last = "fehler"
        /\ belege[runs[i].beleg].pruefnotiz = <<"OCR-Fehler">>
        /\ belege[runs[i].beleg].ocr_text # None
        /\ belege[runs[i].beleg].extraktion_methode # NULL

\* s ends in t
EndsWith(s, t) ==
    Len(s) >= Len(t) /\ SubSeq(s, Len(s) - Len(t) + 1, Len(s)) = t

\* the rows and runs a step leaves in place, and the n it adds
Grown(old, new, n) ==
    Len(new) = Len(old) + n /\ SubSeq(new, 1, Len(old)) = old

\* C6: a reprocess step on an existing receipt sets its status to uploaded,
\* clears its extracted data and its spans, changes no other column (the file
\* path among them), no other row and no file, and enqueues exactly one run
\* for it; on an unknown id it answers 404 and changes no row, file or run.
C6_ReprocessResets ==
    [][response'.op = "reprocess" =>
          LET b == request'.id
          IN  /\ request'.op = "reprocess"
              /\ IF b \in BelegIds
                 THEN /\ response'.code = 200
                      /\ belege'[b].status = "hochgeladen"
                      /\ belege'[b].extrahierte_daten = None
                      /\ belege'[b].quellreferenzen = None
                      /\ \A f \in DOMAIN belege[b] \
                               {"status", "extrahierte_daten", "quellreferenzen"} :
                            belege'[b][f] = belege[b][f]
                      /\ Len(belege') = Len(belege)
                      /\ \A c \in BelegIds \ {b} : belege'[c] = belege[c]
                      /\ files' = files
                      /\ Grown(runs, runs', 1)
                      /\ Last(runs').beleg = b
                      /\ Last(runs').pc = "queued"
                 ELSE /\ response'.code = 404
                      /\ UNCHANGED <<belege, files, runs>>]_vars

\* a reprocess has just reset a reviewed receipt that held spans of an
\* earlier extraction while a run for it was underway
C6_Witness ==
    /\ response = [op |-> "reprocess", code |-> 200]
    /\ \E b \in BelegIds :
          /\ request.id = b
          /\ belege[b].status = "hochgeladen"
          /\ belege[b].quellreferenzen = None
          /\ belege[b].extraktion_methode # NULL
          /\ belege[b].manuell_geprueft
          /\ \E i \in 1..Len(runs) : runs[i].beleg = b /\ Started(i)

\* C7: the step after a successful OCR ends the run in error with the "no
\* usable text" note when the trimmed text has fewer than 20 characters, and
\* moves on to extraction_running when it has 20 or more; the text it tests
\* is the text OCR read from the file.
C7_ShortTextEndsInError ==
    [][\A i \in 1..Len(runs) :
          LET b == runs[i].beleg
          IN  /\ runs[i].pc = "ocr" /\ runs'[i].pc = "check" =>
                    /\ runs'[i].ocr_result.text = files[b]
                    /\ belege'[b].ocr_text = Some(files[b])
              /\ runs[i].pc = "check" /\ runs'[i] # runs[i] =>
                    IF Len(strip(runs[i].ocr_result.text)) < MinUsableChars
                    THEN /\ runs'[i].pc = "done"
                         /\ runs'[i].last = "fehler"
                         /\ belege'[b].status = "fehler"
                         /\ belege'[b].pruefnotiz =
                                <<"OCR lieferte keinen verwertbaren Text">>
                    ELSE /\ runs'[i].pc = "extract"
                         /\ runs'[i].last = "extraktion_laeuft"
                         /\ belege'[b].status = "extraktion_laeuft"]_vars

\* a run has ended with the "no usable text" note on a text of 20 or more
\* characters whose trimmed length is below 20
C7_Witness ==
    \E i \in 1..Len(runs) :
        /\ runs[i].pc = "done"
        /\ runs[i].last = "fehler"
        /\ belege[runs[i].beleg].pruefnotiz = <<"OCR lieferte keinen verwertbaren Text">>
        /\ belege[runs[i].beleg].ocr_text # None
        /\ Len(belege[runs[i].beleg].ocr_text[1]) >= MinUsableChars

\* the columns the claim compares
ComparedFields == {"status"} \cup OcrFields \cup ExtractionFields

Compared(row) == [f \in ComparedFields |-> row[f]]

\* C8: with the OCR and LLM outputs fixed, whenever a second or later
\* reprocess run has completed, the receipt's status, OCR artifacts,
\* extraction artifacts and structured columns are those the first completed
\* run left.
C8_ReprocessTwiceAsOnce ==
    Len(runs) >= 2 /\ AllRunsDone =>
        once # None /\ Compared(belege[1]) = Compared(once[1])

\* the second run has completed after an OCR that wrote text
C8_Witness ==
    /\ Len(runs) >= 2
    /\ AllRunsDone
    /\ once # None
    /\ belege[1].ocr_text # None
    /\ belege[1].status = "fehler"

\* the positions of the files of a request whose suffix, lowercased, is in
\* the allowed set
AllowedPositions(fs) ==
    {k \in 1..Len(fs) : lower(suffix(fs[k].name)) \in ALLOWED}

\* C9: an upload to an existing tax year adds, for each file with an allowed
\* suffix (case ignored) and in request order, one row in state uploaded
\* holding that file and one queued run for the row, and nothing for the other
\* files; with no such file it answers 400 and adds nothing; an unknown tax
\* year is answered 404 and adds nothing.
C9_UploadOnePerAcceptedFile ==
    [][response'.op = "upload" =>
          LET fs == request'.files
              ok == AsList(AllowedPositions(fs))
              n == Len(ok)
          IN  /\ request'.op = "upload"
              /\ IF request'.id \notin DOMAIN steuerjahre
                 THEN response'.code = 404 /\ UNCHANGED <<belege, files, runs>>
                 ELSE IF n = 0
                 THEN response'.code = 400 /\ UNCHANGED <<belege, files, runs>>
                 ELSE /\ response'.code = 200
                      /\ Grown(belege, belege', n)
                      /\ Grown(files, files', n)
                      /\ Grown(runs, runs', n)
                      /\ \A j \in 1..n :
                            LET id == Len(belege) + j
                            IN  /\ belege'[id].status = "hochgeladen"
                                /\ belege'[id].steuerjahr_id = request'.id
                                /\ EndsWith(belege'[id].dateipfad, fs[ok[j]].name)
                                /\ files'[id] = fs[ok[j]].content
                                /\ runs'[Len(runs) + j].beleg = id
                                /\ runs'[Len(runs) + j].pc = "queued"]_vars

\* an upload of two files has just been answered 200 with one row added, for
\* the file whose suffix is in upper case
C9_Witness ==
    /\ response = [op |-> "upload", code |-> 200]
    /\ Len(request.files) = 2
    /\ Cardinality(AllowedPositions(request.files)) = 1
    /\ \E k \in AllowedPositions(request.files) :
          /\ suffix(request.files[k].name) \notin ALLOWED
          /\ EndsWith(Last(belege).dateipfad, request.files[k].name)
    /\ Last(runs).beleg = Len(belege)

C11_EveryAttemptLogged ==
    [][\A s \in 1..Len(syncs) :
          syncs[s].pc = "push" /\ syncs'[s].pc = "done" =>
              LET loaded == syncs[s].loaded
                  new == SubSeq(sync_log', Len(sync_log) + 1, Len(sync_log'))
              IN  /\ SubSeq(sync_log', 1, Len(sync_log)) = sync_log
                  /\ Len(new) = Len(loaded)
                  /\ \A k \in 1..Len(loaded) :
                        /\ new[k].beleg_id = loaded[k].beleg_id
                        /\ new[k].status \in {"success", "error"}]_vars

\* a span indexes the text it was computed from: full_text[start:end] == text
SpanHolds(full_text, span) ==
    Slice(full_text, span.start, span.end) = span.text

\* C14: the quote locator called with the empty quote returns None, for
\* every OCR text.
C14_EmptyQuoteNoSpan ==
    ret # Pending /\ "quote" \in DOMAIN args =>
        (args.quote = <<>> => ret.span = None)

\* the spans a returned value carries
SpansOf(r) ==
    IF "spans" \in DOMAIN r THEN r.spans ELSE r.span

\* C12: every span the quote locator returns, by whichever tier, and every
\* span the grounding of an extraction returns, from a quote or from the
\* fallback value search, indexes the OCR text it was computed from:
\* full_text[start:end] == text.
C12_SpansIndexTheText ==
    ret # Pending =>
        \A i \in 1..Len(SpansOf(ret)) : SpanHolds(args.ocr_text, SpansOf(ret)[i])

\* the fuzzy tier has returned a span
C12_Witness ==
    /\ ret # Pending
    /\ "tier" \in DOMAIN ret
    /\ ret.tier = 4
    /\ ret.span # None

\* C13: for every text T and every 0 <= a < b <= len(T), the locator asked
\* for the quote T[a:b] answers with the start and end of that substring, the
\* earliest occurrence when the substring occurs more than once.
C13_SubstringLocatedAtItsOffsets ==
    ret # Pending /\ "quote" \in DOMAIN args =>
        \A a, b \in 0..Len(args.ocr_text) :
            a < b /\ Slice(args.ocr_text, a, b) = args.quote =>
                LET earliest == Min({x \in 0..a :
                        Slice(args.ocr_text, x, x + (b - a)) = args.quote})
                IN  /\ ret.span # None
                    /\ ret.span[1].start = earliest
                    /\ ret.span[1].end = earliest + (b - a)
                    /\ ret.span[1].text = args.quote

\* A located substring that occurs twice in the text, and one that occurs once
\* away from the start of the text.
C13_Witness ==
    /\ ret # Pending /\ "quote" \in DOMAIN args
    /\ Len(args.quote) >= 2
    /\ \E a \in 1..Len(args.ocr_text) :
        /\ Slice(args.ocr_text, a, a + Len(args.quote)) = args.quote
        /\ a + Len(args.quote) <= Len(args.ocr_text)
        /\ ret.span # None /\ ret.span[1].start < a
        /\ ret.span[1].start > 0

\* the words of a processed file, each with its page
GeometryWords == AllWords(ret.data.pages)

\* C16: every word of the geometry of a processed file, of one page or of
\* several, spans its own text in the assembled text returned with it:
\* full_text[char_start:char_end] == text.
C16_WordsIndexTheText ==
    ret # Pending =>
        \A i \in 1..Len(GeometryWords) :
            Slice(ret.text, GeometryWords[i].word.char_start,
                  GeometryWords[i].word.char_end) = GeometryWords[i].word.text

\* a PDF of two pages, two blocks on the first, a trimmed word on the second
C16_Witness ==
    /\ ret # Pending
    /\ Len(ret.data.pages) = 2
    /\ \E i \in 1..Len(args.doc.pages[1].rows) :
          args.doc.pages[1].rows[i].block_num = 2
    /\ Len(ret.data.pages[1].words) >= 2
    /\ \E i \in 1..Len(ret.data.pages[2].words) :
          ret.data.pages[2].words[i].text = <<"-", "-">>

\* C17: in a document of several pages, the first word of page k+1 starts
\* where the last word of page k ends plus the length of the page separator.
C17_NextPageStartsAfterSeparator ==
    ret # Pending =>
        \A k \in 1..(Len(ret.data.pages) - 1) :
            LET last == ret.data.pages[k].words
                next == ret.data.pages[k + 1].words
            IN  last # <<>> /\ next # <<>> =>
                    next[1].char_start =
                        last[Len(last)].char_end + Len(PAGE_SEPARATOR)

\* the spans that were given a box
Boxed == { i \in 1..Len(ret.spans) : "bbox" \in DOMAIN ret.spans[i] }

\* C15: every span the enricher gives a box has a box of positive width and
\* height, on the page of every word whose characters overlap the span's.
C15_BoxPositiveOnOnePage ==
    ret # Pending /\ "spans" \in DOMAIN ret =>
        \A i \in Boxed :
            /\ ret.spans[i].bbox.w > 0
            /\ ret.spans[i].bbox.h > 0
            /\ \A j \in 1..Len(GeometryWords) :
                  /\ GeometryWords[j].word.char_start < ret.spans[i].end
                  /\ GeometryWords[j].word.char_end > ret.spans[i].start
                  => GeometryWords[j].page = ret.spans[i].bbox.page

\* C18: the confidence tier is a function of K, the number of non-null fields
\* among kind, gross amount, issuer and date, and G, the number of grounded
\* fields among gross amount, issuer and date. Cash-register slip: high if
\* K >= 3 and G >= 1, medium if K >= 2, else low. Any other kind: high if
\* K >= 4 and G >= 2, medium if K >= 2, else low.
C18_TierFromCounts ==
    ret # Pending /\ "attrs" \in DOMAIN args =>
        LET K == Cardinality({f \in DOMAIN args.attrs : args.attrs[f] # NULL})
            G == Cardinality(args.grounded \cap ScoredFields)
        IN  ret.konfidenz =
                IF args.attrs.beleg_typ = "kassenbon"
                THEN (IF K >= 3 /\ G >= 1 THEN "hoch"
                      ELSE IF K >= 2 THEN "mittel" ELSE "niedrig")
                ELSE (IF K >= 4 /\ G >= 2 THEN "hoch"
                      ELSE IF K >= 2 THEN "mittel" ELSE "niedrig")

\* a complete invoice with one grounded field scores medium
C18_Witness ==
    /\ ret # Pending /\ "attrs" \in DOMAIN args
    /\ args.attrs.beleg_typ = "rechnung"
    /\ \A f \in DOMAIN args.attrs : args.attrs[f] # NULL
    /\ Cardinality(args.grounded \cap ScoredFields) = 1
    /\ ret.konfidenz = "mittel"

\* C19: the merged record equals the text-pass record on every field the
\* text pass has a value for, takes a vision value only on fields the text
\* pass has none for, and the method is tagged vision-merged exactly when at
\* least one field was filled from the vision pass.
C19_MergeFillsOnlyGaps ==
    ret # Pending /\ "vision" \in DOMAIN args =>
        LET text == args.result.extrahierte_daten
            merged == ret.extrahierte_daten
            filled == {f \in DOMAIN text : text[f] = NULL /\ merged[f] # NULL}
        IN  /\ \A f \in DOMAIN text : text[f] # NULL => merged[f] = text[f]
            /\ \A f \in filled : args.vision # None /\ merged[f] = args.vision[1][f]
            /\ (ret.methode = "ollama_vision_merged") <=> (filled # {})
            /\ filled = {} => ret.methode = args.result.methode

\* the vision pass fills one field and disagrees on another
C19_Witness ==
    /\ ret # Pending /\ "vision" \in DOMAIN args
    /\ args.vision # None
    /\ args.result.extrahierte_daten.aussteller = "text"
    /\ args.vision[1].aussteller = "vision"
    /\ args.result.extrahierte_daten.betrag_brutto = NULL
    /\ ret.extrahierte_daten.betrag_brutto = "vision"
    /\ ret.methode = "ollama_vision_merged"

\* C20: the classifier answers for every kind and VAT rate: the table entry
\* of a known kind, the generic other-operating-expense account for an
\* unknown one; with an empty default tax code and a known rate the tax code
\* is "3" for a rate >= 15, "2" for a rate >= 5 and empty otherwise; a
\* non-empty default tax code is never replaced.
C20_AccountAndTaxCode ==
    ret # Pending /\ "beleg_typ" \in DOMAIN args =>
        LET known == args.beleg_typ \in DOMAIN KONTIERUNG_MAP
            default == IF known THEN KONTIERUNG_MAP[args.beleg_typ][3] ELSE ""
            rate == args.mwst_satz
        IN  /\ known => /\ ret.skr03_konto = KONTIERUNG_MAP[args.beleg_typ][1]
                        /\ ret.skr03_bezeichnung = KONTIERUNG_MAP[args.beleg_typ][2]
            /\ ~known => /\ ret.skr03_konto = "4900"
                         /\ ret.skr03_bezeichnung = "Sonst. betriebl. Aufwend."
            /\ default # "" => ret.bu_schluessel = default
            /\ default = "" /\ rate # None =>
                   ret.bu_schluessel = IF rate[1] >= 15 THEN "3"
                                       ELSE IF rate[1] >= 5 THEN "2" ELSE ""
            /\ default = "" /\ rate = None => ret.bu_schluessel = ""

\* a kind with an empty default gets "2" at 7 percent, and a cash-register
\* slip keeps its "2" at 19 percent
C20_Witness ==
    /\ ret # Pending /\ "beleg_typ" \in DOMAIN args
    /\ \/ /\ args.beleg_typ = "fahrtkosten" /\ args.mwst_satz = Some(7)
          /\ ret.bu_schluessel = "2"
       \/ /\ args.beleg_typ = "kassenbon" /\ args.mwst_satz = Some(19)
          /\ ret.bu_schluessel = "2"

\* C21: the extractor called with an empty OCR text returns, whatever the
\* LLM answers, a record whose structured fields are all null and whose
\* confidence tier is low.
C21_EmptyTextGivesNothing ==
    ret # Pending /\ args.ocr_text = <<>> /\ ~ret.raised =>
        /\ \A f \in DataFields : ret.result.extrahierte_daten[f] = NULL
        /\ ret.result.konfidenz = "niedrig"

\* C22: within one extraction the text LLM endpoint is called at most twice;
\* a second call is made only when the first response cannot be parsed as
\* JSON, none follows the second, and a transport or HTTP failure of a call
\* is never retried.
C22_AtMostOneRetryOnParseFailure ==
    ret # Pending =>
        /\ ret.calls \in {1, 2}
        /\ ret.calls = 2 <=> args.replies[1] = "unparseable"

\* a second call that failed, and a first call that failed
C22_Witness ==
    /\ ret # Pending
    /\ \/ args.replies = <<"unparseable", "timeout">> /\ ret.calls = 2
       \/ args.replies[1] = "http_error" /\ ret.calls = 1

\* C23: the vision pass is run exactly when an image path is available, a
\* vision model is configured and the OCR confidence or the key fields call
\* for it; with no vision model configured the extractor skips the vision
\* pass and completes with the result of the text pass.
C23_NoVisionModelSkipsVisionPass ==
    ret # Pending /\ "vision_model" \notin SettingsFields =>
        /\ ~ret.raised
        /\ ret.result.methode # "ollama_vision_merged"

\* the windows of a text a quote is scored against, as <<size, start>>, and
\* the Dice score of a window as a fraction
FuzzyWindows(ocr_text, quote) ==
    { c \in WindowSizes(Len(quote), Len(ocr_text)) \X (0..Len(ocr_text)) :
        /\ c[2] + c[1] <= Len(ocr_text)
        /\ bigrams(Slice(lower(ocr_text), c[2], c[2] + c[1])) # {} }
DiceNum(ocr_text, quote, c) ==
    2 * Cardinality(bigrams(lower(quote))
                    \cap bigrams(Slice(lower(ocr_text), c[2], c[2] + c[1])))
DiceDen(ocr_text, quote, c) ==
    Cardinality(bigrams(lower(quote)))
    + Cardinality(bigrams(Slice(lower(ocr_text), c[2], c[2] + c[1])))
BestWindows(ocr_text, quote) ==
    { c \in FuzzyWindows(ocr_text, quote) : \A d \in FuzzyWindows(ocr_text, quote) :
        DiceNum(ocr_text, quote, c) * DiceDen(ocr_text, quote, d)
            >= DiceNum(ocr_text, quote, d) * DiceDen(ocr_text, quote, c) }

\* C24: in the fuzzy tier, among the windows that share the best Dice score
\* the one with the earliest start is returned, and among those with the
\* same start the smaller one.
C24_EarliestThenSmallestWindow ==
    ret # Pending /\ "quote" \in DOMAIN args /\ ret.tier = 4 =>
        \E c \in BestWindows(args.ocr_text, args.quote) :
            /\ \A d \in BestWindows(args.ocr_text, args.quote) :
                    c[2] < d[2] \/ (c[2] = d[2] /\ c[1] <= d[1])
            /\ ret.span[1].start = c[2]
            /\ ret.span[1].end = c[2] + c[1]

\* C25: the fuzzy tier is consulted only when tiers 1-3 miss and the quote
\* has at least 5 characters; it returns the best-scoring window when that
\* window's Dice score is at least 0.80, so a quote of 5 or more characters
\* is left unlocated only if no window of the text reaches 0.80.
C25_UnlocatedOnlyBelowThreshold ==
    ret # Pending /\ "quote" \in DOMAIN args =>
        /\ ret.tier = 4 =>
              /\ Len(args.quote) >= 5
              /\ find(normalize_text(args.ocr_text), normalize_text(args.quote)) < 0
              /\ \E c \in BestWindows(args.ocr_text, args.quote) :
                    10 * DiceNum(args.ocr_text, args.quote, c)
                        >= 8 * DiceDen(args.ocr_text, args.quote, c)
        /\ ret.tier = 0 /\ Len(args.quote) >= 5 =>
              \A c \in FuzzyWindows(args.ocr_text, args.quote) :
                    c[1] >= 3 =>
                    10 * DiceNum(args.ocr_text, args.quote, c)
                        < 8 * DiceDen(args.ocr_text, args.quote, c)

\* C26: when tiers 1 and 2 miss and the normalized quote occurs in the
\* normalized text, the span returned holds a piece of the original text
\* that, normalized, equals the normalized quote.
C26_NormalizedSpanHoldsTheQuote ==
    ret # Pending /\ "quote" \in DOMAIN args /\ ret.tier = 3
        /\ normalize_text(args.quote) # <<>> =>
        normalize_text(ret.span[1].text) = normalize_text(args.quote)

\* C27: for a quote of length q the window sizes are exactly the set
\* {floor(0.8q), floor(0.9q), q, ceil(1.1q), ceil(1.2q)}, each clipped to at
\* most the text length and at least 3.
C27_WindowSizesRoundOutwards ==
    ret # Pending =>
        LET q == args.qlen
            Clip(n) == Max({3, Min({args.tlen, n})})
        IN  ret.window_sizes
              = { Clip((8 * q) \div 10), Clip((9 * q) \div 10), Clip(q),
                  Clip((11 * q + 9) \div 10), Clip((12 * q + 9) \div 10) }

\* C30: a reviewer update committed while a pipeline run for the same
\* receipt is in flight is not lost: a receipt in status geprueft keeps that
\* status in every step of a run, and leaves it only through a reprocess,
\* which sets it back to hochgeladen.
C30_ReviewSurvivesTheRun ==
    [][\A i \in BelegIds :
          (/\ belege[i].status = "geprueft"
           /\ \E r \in 1..Len(runs) :
                 runs[r].beleg = i /\ runs[r].pc \notin {"queued", "done"}
           /\ i \in DOMAIN belege') =>
              belege'[i].status \in {"geprueft", "hochgeladen"}]_vars

C29_PushedAtMostOnce ==
    \A b \in 1..Len(belege) :
        Cardinality({ k \in 1..Len(sync_log) :
                        sync_log[k].beleg_id = b /\ sync_log[k].status = "success" }) <= 1
====
